---- MODULE Spec2Model ----
(***************************************************************************)
(* Model of the online-time reconstruction and statistics code of          *)
(* FleetDatabase (src/pythonProject/src/utils/database.py).                *)
(*                                                                         *)
(* Units.  Timestamps and durations are whole epoch seconds, as in the     *)
(* orders table and in the state-log API.  Every value the code returns    *)
(* after round(x, 2) is kept as an integer number of hundredths of an hour *)
(* ("centi-hours"), so 0.42 h is 42.  Distances are meters.  Money is an   *)
(* integer number of bani (1/100 RON).                                     *)
(***************************************************************************)
EXTENDS Integers, Sequences, FiniteSets, TLC

VARIABLES now, sys_offset, orders, state_logs, call, ret, history, client, sync, view

vars == <<now, sys_offset, orders, state_logs, call, ret, history, client, sync, view>>

(***************************************************************************)
(* Bounds of the model.                                                    *)
(***************************************************************************)
MaxLogs == 3
MaxOrders == 3
MaxStatsLogs == 2
MaxStatsOrders == 2

(***************************************************************************)
(* Values of the Python code that have no integer form.                    *)
(***************************************************************************)
None == 0 - 1
NoCall == [fn |-> "none"]
NoRet == [kind |-> "none"]
\* The subsystems a specification leaves out: no OAuth client, no sync run
\* and no date-selection view.
NoClient == [kind |-> "none"]
NoSync == [kind |-> "none"]
NoView == [kind |-> "none"]

Day == 24 * 3600
Min2(a, b) == IF a <= b THEN a ELSE b
Max2(a, b) == IF a >= b THEN a ELSE b
Abs(a) == IF a >= 0 THEN a ELSE 0 - a

\* Python round(n / d) for integers n >= 0, d > 0: nearest integer, a tie
\* going to the even neighbour.
RoundDiv(n, d) ==
  LET q == n \div d
      r == n % d
  IN  IF 2 * r < d THEN q
      ELSE IF 2 * r > d THEN q + 1
      ELSE IF q % 2 = 0 THEN q ELSE q + 1

\* round(seconds / 3600, 2), in centi-hours.
RoundHours2(seconds) == RoundDiv(seconds, 36)

\* The outcome of a Python division by zero, apart from every number that a
\* division returns.
ZeroDivisionError == 0 - 2

\* round(n / d, k) for integers n >= 0 and d >= 0 that are already scaled
\* to the unit of the result.
Divide(n, d) == IF d = 0 THEN ZeroDivisionError ELSE RoundDiv(n, d)

\* Ratio without the test of its denominator.
Ratio_Unguarded(n, d) == Divide(n, d)

\* round(n / d if d > 0 else 0, k)
Ratio(n, d) == IF d > 0 THEN Divide(n, d) ELSE 0

\* total_minutes = round(seconds / 60); round(total_minutes / 60, 2), in
\* centi-hours.
RoundMinutesToHours2(seconds) == RoundDiv(100 * RoundDiv(seconds, 60), 60)

RECURSIVE SumSeq(_)
SumSeq(s) == IF s = <<>> THEN 0 ELSE s[1] + SumSeq(Tail(s))

\* The sum of the values of a function with a finite domain.
RECURSIVE SumFun(_)
SumFun(f) ==
  IF DOMAIN f = {} THEN 0
  ELSE LET x == CHOOSE x \in DOMAIN f : TRUE
       IN  f[x] + SumFun([y \in DOMAIN f \ {x} |-> f[y]])

(***************************************************************************)
(* State tokens.  The code lower-cases the raw token before comparing it.  *)
(***************************************************************************)
RawStates == {"waiting_orders", "has_order", "busy", "inactive", "HAS_ORDER"}

Lower(s) == IF s = "HAS_ORDER" THEN "has_order" ELSE s

(***************************************************************************)
(* driver_logs.sort(key=created): Python's sort is stable, so events with  *)
(* equal timestamps keep the order of the caller's list.                   *)
(***************************************************************************)
InsertByCreated(sorted, log) ==
  LET k == Cardinality({i \in 1..Len(sorted) : sorted[i].created <= log.created})
  IN  SubSeq(sorted, 1, k) \o <<log>> \o SubSeq(sorted, k + 1, Len(sorted))

RECURSIVE SortByCreated(_)
SortByCreated(logs) ==
  IF logs = <<>> THEN <<>>
  ELSE InsertByCreated(SortByCreated(SubSeq(logs, 1, Len(logs) - 1)), logs[Len(logs)])

LogsOfDriver(driver_uuid, logs) ==
  SelectSeq(logs, LAMBDA log : log.driver_uuid = driver_uuid)

(***************************************************************************)
(* calculate_hours_from_states                                             *)
(***************************************************************************)
\* SeedState that stops at the first event before start_ts instead of
\* running to the last one.
SeedState_Earliest(driver_logs, start_ts) ==
  LET before == SelectSeq(driver_logs, LAMBDA log : log.created < start_ts)
  IN  IF before = <<>> THEN "None" ELSE Lower(before[1].state)

\* The first loop: the lower-cased state of the last event before start_ts,
\* None if there is none.
SeedState(driver_logs, start_ts) ==
  LET before == SelectSeq(driver_logs, LAMBDA log : log.created < start_ts)
  IN  IF before = <<>> THEN "None" ELSE Lower(before[Len(before)].state)

\* last_timestamp before the main loop.
SeedTimestamp(seed, start_ts) ==
  IF seed \in {"waiting_orders", "has_order", "busy"} THEN start_ts ELSE None

\* The accumulation "based on last state" of one duration.
AddDuration(acc, last_state, duration) ==
  IF last_state = "waiting_orders"
    THEN [acc EXCEPT !.waiting_seconds = @ + duration,
                     !.total_online_seconds = @ + duration]
  ELSE IF last_state \in {"has_order", "busy"}
    THEN [acc EXCEPT !.ride_seconds = @ + duration,
                     !.total_online_seconds = @ + duration]
  ELSE acc

\* HoursLoopStep with each span attributed to the state of the event that
\* ends it instead of the event that starts it.
HoursLoopStep_NewState(acc, log, start_ts, end_ts) ==
  IF acc.stopped \/ log.created < start_ts THEN acc
  ELSE
    LET timestamp == IF log.created > end_ts THEN end_ts ELSE log.created
        counted == IF acc.last_timestamp /= None /\ acc.last_timestamp >= start_ts
                     THEN AddDuration(acc, Lower(log.state), timestamp - acc.last_timestamp)
                     ELSE acc
    IN  IF timestamp >= end_ts
          THEN [counted EXCEPT !.stopped = TRUE]
          ELSE [counted EXCEPT !.last_state = Lower(log.state),
                               !.last_timestamp = timestamp]

\* One iteration of the main loop over the sorted events of the driver.
HoursLoopStep(acc, log, start_ts, end_ts) ==
  IF acc.stopped \/ log.created < start_ts THEN acc
  ELSE
    LET timestamp == IF log.created > end_ts THEN end_ts ELSE log.created
        counted == IF acc.last_timestamp /= None /\ acc.last_timestamp >= start_ts
                     THEN AddDuration(acc, acc.last_state, timestamp - acc.last_timestamp)
                     ELSE acc
    IN  IF timestamp >= end_ts
          THEN [counted EXCEPT !.stopped = TRUE]
          ELSE [counted EXCEPT !.last_state = Lower(log.state),
                               !.last_timestamp = timestamp]

RECURSIVE HoursLoop(_, _, _, _)
HoursLoop(acc, driver_logs, start_ts, end_ts) ==
  IF driver_logs = <<>> THEN acc
  ELSE HoursLoop(HoursLoopStep(acc, Head(driver_logs), start_ts, end_ts),
                 Tail(driver_logs), start_ts, end_ts)

\* HoursFinalState that closes the open interval at the time of the call,
\* also when the window has ended before.
HoursFinalState_ClosesAtNow(acc, end_ts, current_ts) ==
  IF acc.last_timestamp /= None /\ acc.last_timestamp /= 0 /\ acc.last_timestamp < end_ts
    THEN AddDuration(acc, acc.last_state, current_ts - acc.last_timestamp)
    ELSE acc

\* "Handle the final state if driver is still online at the end".
HoursFinalState(acc, end_ts, current_ts) ==
  IF acc.last_timestamp /= None /\ acc.last_timestamp /= 0 /\ acc.last_timestamp < end_ts
    THEN AddDuration(acc, acc.last_state, Min2(end_ts, current_ts) - acc.last_timestamp)
    ELSE acc

HoursReturn(acc) ==
  [kind |-> "hours",
   total_online_seconds |-> acc.total_online_seconds,
   ride_seconds |-> acc.ride_seconds,
   waiting_seconds |-> acc.waiting_seconds,
   total_online_hours |-> RoundHours2(acc.total_online_seconds),
   ride_hours |-> RoundHours2(acc.ride_seconds),
   waiting_hours |-> RoundHours2(acc.waiting_seconds)]

calculate_hours_from_states(driver_uuid, start_ts, end_ts, logs, current_ts) ==
  LET driver_logs == SortByCreated(LogsOfDriver(driver_uuid, logs))
      seed == SeedState(driver_logs, start_ts)
      acc0 == [total_online_seconds |-> 0, ride_seconds |-> 0, waiting_seconds |-> 0,
               last_state |-> seed, last_timestamp |-> SeedTimestamp(seed, start_ts),
               stopped |-> FALSE]
  IN  IF driver_logs = <<>>
        THEN HoursReturn([total_online_seconds |-> 0, ride_seconds |-> 0,
                          waiting_seconds |-> 0])
        ELSE HoursReturn(HoursFinalState(HoursLoop(acc0, driver_logs, start_ts, end_ts),
                                         end_ts, current_ts))

(***************************************************************************)
(* calculate_driver_hours_from_states                                      *)
(***************************************************************************)
LogsInRange(driver_uuid, start_ts, end_ts, logs) ==
  SelectSeq(logs, LAMBDA log : /\ log.driver_uuid = driver_uuid
                               /\ start_ts <= log.created
                               /\ log.created <= end_ts)

\* PeriodsLoopStep that, on a waiting<->engaged change, closes the period but
\* leaves current_online_start at the start of the closed one.
PeriodsLoopStep_KeepStart(acc, log) ==
  LET timestamp == log.created
      state == Lower(log.state)
  IN  IF state \in {"waiting_orders", "has_order"}
        THEN IF acc.current_online_start = None
               THEN [acc EXCEPT !.current_online_start = timestamp,
                                !.current_state = state]
             ELSE IF acc.current_state /= "None" /\ acc.current_state /= state
               THEN [online_periods |-> Append(acc.online_periods,
                        <<acc.current_online_start, timestamp, acc.current_state>>),
                     current_online_start |-> acc.current_online_start,
                     current_state |-> state]
             ELSE acc
      ELSE IF state = "inactive"
        THEN IF acc.current_online_start /= None
               THEN [online_periods |-> Append(acc.online_periods,
                        <<acc.current_online_start, timestamp, acc.current_state>>),
                     current_online_start |-> None,
                     current_state |-> "None"]
               ELSE acc
      ELSE acc

\* One iteration of the loop that materializes online_periods.  A period is
\* <<start, end, state_type>>.
PeriodsLoopStep(acc, log) ==
  LET timestamp == log.created
      state == Lower(log.state)
  IN  IF state \in {"waiting_orders", "has_order"}
        THEN IF acc.current_online_start = None
               THEN [acc EXCEPT !.current_online_start = timestamp,
                                !.current_state = state]
             ELSE IF acc.current_state /= "None" /\ acc.current_state /= state
               THEN [online_periods |-> Append(acc.online_periods,
                        <<acc.current_online_start, timestamp, acc.current_state>>),
                     current_online_start |-> timestamp,
                     current_state |-> state]
             ELSE acc
      ELSE IF state = "inactive"
        THEN IF acc.current_online_start /= None
               THEN [online_periods |-> Append(acc.online_periods,
                        <<acc.current_online_start, timestamp, acc.current_state>>),
                     current_online_start |-> None,
                     current_state |-> "None"]
               ELSE acc
      ELSE acc

RECURSIVE PeriodsLoop(_, _)
PeriodsLoop(acc, driver_logs) ==
  IF driver_logs = <<>> THEN acc
  ELSE PeriodsLoop(PeriodsLoopStep(acc, Head(driver_logs)), Tail(driver_logs))

\* "Handle case where driver is still online at the end".
PeriodsStillOnline(acc, end_ts, current_ts) ==
  IF acc.current_online_start /= None
    THEN Append(acc.online_periods,
                <<acc.current_online_start, Min2(current_ts, end_ts), acc.current_state>>)
    ELSE acc.online_periods

PeriodSeconds(online_periods, state_type) ==
  SumSeq([i \in 1..Len(online_periods) |->
            IF online_periods[i][3] = state_type
              THEN online_periods[i][2] - online_periods[i][1] ELSE 0])

calculate_driver_hours_from_states(driver_uuid, start_ts, end_ts, logs, current_ts) ==
  LET driver_logs == SortByCreated(LogsInRange(driver_uuid, start_ts, end_ts, logs))
      acc0 == [online_periods |-> <<>>, current_online_start |-> None,
               current_state |-> "None"]
      online_periods == IF driver_logs = <<>> THEN <<>>
                        ELSE PeriodsStillOnline(PeriodsLoop(acc0, driver_logs),
                                                end_ts, current_ts)
      total == SumSeq([i \in 1..Len(online_periods) |->
                         online_periods[i][2] - online_periods[i][1]])
  IN  [kind |-> "driver_hours",
       online_periods |-> online_periods,
       total_online_hours |-> RoundHours2(total),
       waiting_hours |-> RoundHours2(PeriodSeconds(online_periods, "waiting_orders")),
       active_hours |-> RoundHours2(PeriodSeconds(online_periods, "has_order"))]

(***************************************************************************)
(* The orders table.  A row is a record; order_reference is the primary    *)
(* key.  A NULL column is None.                                            *)
(***************************************************************************)
WaitingGapFull == 1800
WaitingGapMax == 3600
MaxSpeedKmh == 60
MinSpeedKmh == 10
NoDistanceCap == 2 * 3600

\* _store_order: INSERT OR REPLACE on the primary key.
StoredOrders(table, order) ==
  {o \in table : o.order_reference /= order.order_reference} \cup {order}

\* WHERE driver_uuid = ? AND order_status = 'finished'
\*   AND order_finished_timestamp >= ? AND order_finished_timestamp < ?
FinishedInWindow(table, driver_uuid, start_ts, end_ts) ==
  {o \in table : /\ o.driver_uuid = driver_uuid
                 /\ o.order_status = "finished"
                 /\ o.order_finished_timestamp /= None
                 /\ o.order_finished_timestamp >= start_ts
                 /\ o.order_finished_timestamp < end_ts}

\* ORDER BY order_accepted_timestamp.  The rows of a driver in this model
\* have distinct accepted timestamps, so the order is unique.
RECURSIVE SortByAccepted(_)
SortByAccepted(rows) ==
  IF rows = {} THEN <<>>
  ELSE LET first == CHOOSE o \in rows :
                      \A p \in rows : o.order_accepted_timestamp <= p.order_accepted_timestamp
       IN  <<first>> \o SortByAccepted(rows \ {first})

\* TimedOrders without "order_accepted_timestamp IS NOT NULL".
TimedOrders_KeepsMissingAccepted(table, driver_uuid, start_ts, end_ts) ==
  SortByAccepted(FinishedInWindow(table, driver_uuid, start_ts, end_ts))

\* The query shared by the two order-based estimators: the window's finished
\* orders that have an accepted timestamp, by accepted timestamp.
TimedOrders(table, driver_uuid, start_ts, end_ts) ==
  SortByAccepted({o \in FinishedInWindow(table, driver_uuid, start_ts, end_ts) :
                    o.order_accepted_timestamp /= None})

\* (distance_km / 60) * 3600 and (distance_km / 10) * 3600 in seconds; whole
\* numbers for the distances of this model (multiples of 50 m).
MinTime(distance) == (distance * 3600) \div (MaxSpeedKmh * 1000)
MaxTime(distance) == (distance * 3600) \div (MinSpeedKmh * 1000)

\* RideDuration with the lower plausibility bound left out.
RideDuration_NoMinTime(order) ==
  LET accepted == order.order_accepted_timestamp
      finished == order.order_finished_timestamp
      distance == order.ride_distance
      ride_duration == finished - accepted
  IN  IF accepted /= 0 /\ finished /= 0 /\ finished > accepted
        THEN IF distance /= None /\ distance > 0
               THEN IF ride_duration > MaxTime(distance) THEN MaxTime(distance)
                    ELSE ride_duration
               ELSE Min2(ride_duration, NoDistanceCap)
        ELSE 0

\* RideDuration with a too-short ride raised to the upper bound.
RideDuration_SwappedBounds(order) ==
  LET accepted == order.order_accepted_timestamp
      finished == order.order_finished_timestamp
      distance == order.ride_distance
      ride_duration == finished - accepted
  IN  IF accepted /= 0 /\ finished /= 0 /\ finished > accepted
        THEN IF distance /= None /\ distance > 0
               THEN IF ride_duration < MinTime(distance) THEN MaxTime(distance)
                    ELSE IF ride_duration > MaxTime(distance) THEN MaxTime(distance)
                    ELSE ride_duration
               ELSE Min2(ride_duration, NoDistanceCap)
        ELSE 0

\* The body of the loop of calculate_active_hours_from_orders: the seconds
\* one row adds to total_active_seconds.
RideDuration(order) ==
  LET accepted == order.order_accepted_timestamp
      finished == order.order_finished_timestamp
      distance == order.ride_distance
      ride_duration == finished - accepted
  IN  IF accepted /= 0 /\ finished /= 0 /\ finished > accepted
        THEN IF distance /= None /\ distance > 0
               THEN IF ride_duration < MinTime(distance) THEN MinTime(distance)
                    ELSE IF ride_duration > MaxTime(distance) THEN MaxTime(distance)
                    ELSE ride_duration
               ELSE Min2(ride_duration, NoDistanceCap)
        ELSE 0

calculate_active_hours_from_orders(table, driver_uuid, start_ts, end_ts) ==
  LET rows == TimedOrders(table, driver_uuid, start_ts, end_ts)
      total_active_seconds == SumSeq([i \in 1..Len(rows) |-> RideDuration(rows[i])])
  IN  [kind |-> "active",
       total_active_seconds |-> total_active_seconds,
       active_hours |-> RoundMinutesToHours2(total_active_seconds)]

\* GapWaiting that counts every positive gap in full.
GapWaiting_NoCap(gap) == IF gap > 0 THEN gap ELSE 0

\* The seconds one gap between consecutive orders adds to
\* total_waiting_seconds.
GapWaiting(gap) ==
  IF gap > 0
    THEN IF gap <= WaitingGapFull THEN gap
         ELSE IF gap <= WaitingGapMax THEN WaitingGapFull
         ELSE 0
    ELSE 0

calculate_waiting_hours_from_orders(table, driver_uuid, start_ts, end_ts) ==
  LET rows == TimedOrders(table, driver_uuid, start_ts, end_ts)
      total_waiting_seconds ==
        IF Len(rows) <= 1 THEN 0
        ELSE SumSeq([i \in 1..(Len(rows) - 1) |->
               GapWaiting(rows[i + 1].order_accepted_timestamp
                          - rows[i].order_finished_timestamp)])
  IN  [kind |-> "waiting",
       total_waiting_seconds |-> total_waiting_seconds,
       waiting_hours |-> RoundMinutesToHours2(total_waiting_seconds)]

(***************************************************************************)
(* get_driver_stats_by_date_range                                          *)
(***************************************************************************)
CloseActiveHours == 2

NoneRet == [kind |-> "None"]

\* StatesInLogs without the driver filter: the states of every driver's events.
StatesInLogs_AnyDriver(driver_uuid, logs) ==
  {Lower(logs[i].state) : i \in 1..Len(logs)}

\* set(log.state.lower() for log in state_logs if log.driver_uuid == driver)
StatesInLogs(driver_uuid, logs) ==
  {Lower(logs[i].state) : i \in {j \in 1..Len(logs) : logs[j].driver_uuid = driver_uuid}}

\* MainStats whose cash_collected sums the price the rider paid.
MainStats_CashFromPrice(rows) ==
  [orders_completed |-> Cardinality(rows),
   gross_earnings |-> SumFun([o \in rows |-> o.ride_price]),
   net_earnings |-> SumFun([o \in rows |-> o.net_earnings]),
   total_distance_m |-> SumFun([o \in rows |->
                          IF o.ride_distance = None THEN 0 ELSE o.ride_distance]),
   cash_collected |-> SumFun([o \in rows |->
                        IF o.payment_method = "cash" THEN o.ride_price ELSE 0])]

\* The aggregate columns of the "main stats" query over a set of rows; SUM
\* skips NULL.
MainStats(rows) ==
  [orders_completed |-> Cardinality(rows),
   gross_earnings |-> SumFun([o \in rows |-> o.ride_price]),
   net_earnings |-> SumFun([o \in rows |-> o.net_earnings]),
   total_distance_m |-> SumFun([o \in rows |->
                          IF o.ride_distance = None THEN 0 ELSE o.ride_distance]),
   cash_collected |-> SumFun([o \in rows |->
                        IF o.payment_method = "cash" THEN o.net_earnings ELSE 0])]

\* StatsHours with the total taken before the order-gap fallback fills in
\* the waiting hours.
StatsHours_TotalBeforeFallback(table, driver_uuid, start_ts, end_ts, logs, current_ts) ==
  LET order_active ==
        calculate_active_hours_from_orders(table, driver_uuid, start_ts, end_ts).active_hours
      use_states == logs /= <<>> /\ "waiting_orders" \in StatesInLogs(driver_uuid, logs)
      hours_data == calculate_hours_from_states(driver_uuid, start_ts, end_ts, logs, current_ts)
      state_waiting == IF use_states THEN hours_data.waiting_hours ELSE 0
      state_active == hours_data.ride_hours
      active_hours ==
        IF use_states /\ state_active > 0
             /\ Abs(state_active - order_active) < CloseActiveHours * 100
          THEN state_active ELSE order_active
      waiting_hours ==
        IF state_waiting = 0
          THEN calculate_waiting_hours_from_orders(table, driver_uuid, start_ts, end_ts).waiting_hours
          ELSE state_waiting
  IN  [active_hours |-> active_hours,
       waiting_hours |-> waiting_hours,
       total_online_hours |-> active_hours + state_waiting]

\* StatsHours that takes the state-log ride hours whenever they are positive.
StatsHours_NoClosenessTest(table, driver_uuid, start_ts, end_ts, logs, current_ts) ==
  LET order_active ==
        calculate_active_hours_from_orders(table, driver_uuid, start_ts, end_ts).active_hours
      use_states == logs /= <<>> /\ "waiting_orders" \in StatesInLogs(driver_uuid, logs)
      hours_data == calculate_hours_from_states(driver_uuid, start_ts, end_ts, logs, current_ts)
      state_waiting == IF use_states THEN hours_data.waiting_hours ELSE 0
      state_active == hours_data.ride_hours
      active_hours ==
        IF use_states /\ state_active > 0 THEN state_active ELSE order_active
      waiting_hours ==
        IF state_waiting = 0
          THEN calculate_waiting_hours_from_orders(table, driver_uuid, start_ts, end_ts).waiting_hours
          ELSE state_waiting
  IN  [active_hours |-> active_hours,
       waiting_hours |-> waiting_hours,
       total_online_hours |-> active_hours + waiting_hours]

\* The choice of active_hours, waiting_hours and their total, all in
\* centi-hours (each term is already rounded to 0.01 h, so
\* round(active_hours + waiting_hours, 2) is their sum).
StatsHours(table, driver_uuid, start_ts, end_ts, logs, current_ts) ==
  LET order_active ==
        calculate_active_hours_from_orders(table, driver_uuid, start_ts, end_ts).active_hours
      use_states == logs /= <<>> /\ "waiting_orders" \in StatesInLogs(driver_uuid, logs)
      hours_data == calculate_hours_from_states(driver_uuid, start_ts, end_ts, logs, current_ts)
      state_waiting == IF use_states THEN hours_data.waiting_hours ELSE 0
      state_active == hours_data.ride_hours
      active_hours ==
        IF use_states /\ state_active > 0
             /\ Abs(state_active - order_active) < CloseActiveHours * 100
          THEN state_active ELSE order_active
      waiting_hours ==
        IF state_waiting = 0
          THEN calculate_waiting_hours_from_orders(table, driver_uuid, start_ts, end_ts).waiting_hours
          ELSE state_waiting
  IN  [active_hours |-> active_hours,
       waiting_hours |-> waiting_hours,
       total_online_hours |-> active_hours + waiting_hours]

\* The dictionary returned when the window has finished orders.
DateRangeStats(table, driver_uuid, start_ts, end_ts, logs, current_ts) ==
  LET row == MainStats(FinishedInWindow(table, driver_uuid, start_ts, end_ts))
      hours == StatsHours(table, driver_uuid, start_ts, end_ts, logs, current_ts)
  IN  [kind |-> "stats",
       orders_completed |-> row.orders_completed,
       gross_earnings |-> row.gross_earnings,
       net_earnings |-> row.net_earnings,
       total_distance_m |-> row.total_distance_m,
       cash_collected |-> row.cash_collected,
       hours_worked |-> hours.active_hours,
       waiting_hours |-> hours.waiting_hours,
       total_online_hours |-> hours.total_online_hours,
       \* bani per hour, bani per km, and units of 0.1 km
       earnings_per_hour |-> Ratio(100 * row.gross_earnings, hours.total_online_hours),
       earnings_per_hour_active |-> Ratio(100 * row.gross_earnings, hours.active_hours),
       earnings_per_km |-> Ratio(1000 * row.gross_earnings, row.total_distance_m),
       avg_distance |-> Ratio(row.total_distance_m, 100 * row.orders_completed)]

\* get_driver_stats_by_date_range without the "No orders found" return.
get_driver_stats_by_date_range_ZeroFilled(table, driver_uuid, start_ts, end_ts, logs, current_ts) ==
  DateRangeStats(table, driver_uuid, start_ts, end_ts, logs, current_ts)

get_driver_stats_by_date_range(table, driver_uuid, start_ts, end_ts, logs, current_ts) ==
  IF Cardinality(FinishedInWindow(table, driver_uuid, start_ts, end_ts)) = 0
    THEN NoneRet
    ELSE DateRangeStats(table, driver_uuid, start_ts, end_ts, logs, current_ts)

(***************************************************************************)
(* get_driver_stats_by_uuid                                                *)
(***************************************************************************)
\* Europe/Bucharest is UTC+3 on the dates of this model (summer time).
RomaniaOffset == 3 * 3600

\* datetime(2024, 7, 28) as wall-clock seconds.
CompanyStartWall == 19932 * Day

\* The window of the query.  days = 0 stands for None ("all time").  The
\* Romanian wall-clock values are stripped of their timezone and converted
\* by timestamp(), that is, read in the system timezone, whose UTC offset is
\* system_offset.
UuidWindow(days, current_ts, system_offset) ==
  LET now_romania == current_ts + RomaniaOffset
      midnight == now_romania - (now_romania % Day)
  IN  IF days /= 0
        THEN [start_ts |-> midnight - (days - 1) * Day - system_offset,
              end_ts |-> now_romania - system_offset,
              filtered |-> TRUE]
        ELSE [start_ts |-> CompanyStartWall - system_offset,
              end_ts |-> current_ts,
              filtered |-> FALSE]

\* WHERE driver_uuid = ? AND order_status = 'finished' {time_filter}; the
\* filter of this function includes end_ts.
UuidRows(table, driver_uuid, window) ==
  {o \in table : /\ o.driver_uuid = driver_uuid
                 /\ o.order_status = "finished"
                 /\ (window.filtered =>
                       /\ o.order_finished_timestamp /= None
                       /\ o.order_finished_timestamp >= window.start_ts
                       /\ o.order_finished_timestamp <= window.end_ts)}

\* The fallback without state logs: per UTC date of finishing, the span from
\* the first acceptance to the last finish, summed; in seconds.
OrderSpanSeconds(rows) ==
  LET timed == {o \in rows : o.order_accepted_timestamp /= None
                             /\ o.order_finished_timestamp /= None}
      dates == {o.order_finished_timestamp \div Day : o \in timed}
      OfDate(d) == {o \in timed : o.order_finished_timestamp \div Day = d}
      DailyStart(d) == CHOOSE a \in {o.order_accepted_timestamp : o \in OfDate(d)} :
                         \A o \in OfDate(d) : a <= o.order_accepted_timestamp
      DailyEnd(d) == CHOOSE f \in {o.order_finished_timestamp : o \in OfDate(d)} :
                       \A o \in OfDate(d) : f >= o.order_finished_timestamp
  IN  SumFun([d \in dates |->
                IF DailyStart(d) /= 0 /\ DailyEnd(d) /= 0
                  THEN DailyEnd(d) - DailyStart(d) ELSE 0])

\* The three hour figures of get_driver_stats_by_uuid.
UuidHours(rows, driver_uuid, window, logs, current_ts) ==
  IF logs /= <<>>
    THEN LET hours_data == calculate_hours_from_states(driver_uuid, window.start_ts,
                                                       window.end_ts, logs, current_ts)
         IN  [total_online_hours |-> hours_data.total_online_hours,
              ride_hours |-> hours_data.ride_hours,
              waiting_hours |-> hours_data.waiting_hours]
    ELSE [total_online_hours |-> RoundHours2(OrderSpanSeconds(rows)),
          ride_hours |-> RoundHours2(OrderSpanSeconds(rows)),
          waiting_hours |-> 0]

get_driver_stats_by_uuid(table, driver_uuid, days, logs, current_ts, system_offset) ==
  LET window == UuidWindow(days, current_ts, system_offset)
      rows == UuidRows(table, driver_uuid, window)
      row == MainStats(rows)
      hours == UuidHours(rows, driver_uuid, window, logs, current_ts)
  IN  IF row.orders_completed = 0
        THEN NoneRet
        ELSE [kind |-> "stats",
              orders_completed |-> row.orders_completed,
              gross_earnings |-> row.gross_earnings,
              net_earnings |-> row.net_earnings,
              total_distance_m |-> row.total_distance_m,
              cash_collected |-> row.cash_collected,
              hours_worked |-> hours.total_online_hours,
              ride_hours |-> hours.ride_hours,
              waiting_hours |-> hours.waiting_hours]

(***************************************************************************)
(* Inputs of the state-log computations: one window [WinStart, WinEnd) and *)
(* events before it, on its start, inside it, on its end and after it.     *)
(***************************************************************************)
BaseTs == 20000 * Day + 10 * 3600
WinStart == BaseTs
WinEnd == BaseTs + 4200
StatesTimes == {BaseTs - 600, BaseTs, BaseTs + 600, BaseTs + 3600, WinEnd, WinEnd + 600}
StatesNows == {BaseTs + 3900, WinEnd + 1200}

StatesLogPool ==
  {[driver_uuid |-> "d1", created |-> t, state |-> s] :
      t \in StatesTimes, s \in {"waiting_orders", "has_order", "inactive"}}
  \cup {[driver_uuid |-> "d1", created |-> BaseTs + 600, state |-> "busy"],
        [driver_uuid |-> "d1", created |-> BaseTs + 600, state |-> "HAS_ORDER"],
        [driver_uuid |-> "d2", created |-> BaseTs + 600, state |-> "waiting_orders"]}

(***************************************************************************)
(* Actions of the state-log specification.                                 *)
(***************************************************************************)
\* The caller's state_logs list, as returned by the state-log API: events
\* in any order, none of them from the future.
AppendStateLog(log, bound) ==
  /\ call = NoCall
  /\ Len(state_logs) < bound
  /\ log.created <= now
  /\ state_logs' = Append(state_logs, log)
  /\ UNCHANGED <<now, sys_offset, orders, call, ret, history, client, sync, view>>

\* The caller's state_logs list after a call.  The functions filter it into
\* a new list (driver_logs) and sort that list; CallersStateLogs_SortedInPlace
\* is a function that sorts the list it was given.
CallersStateLogs_SortedInPlace(logs) == SortByCreated(logs)

CallersStateLogs(logs) == logs

CalculateHoursFromStates(driver_uuid, start_ts, end_ts) ==
  /\ call = NoCall
  /\ call' = [fn |-> "calculate_hours_from_states", driver_uuid |-> driver_uuid,
              start_ts |-> start_ts, end_ts |-> end_ts]
  /\ ret' = calculate_hours_from_states(driver_uuid, start_ts, end_ts, state_logs, now)
  /\ state_logs' = CallersStateLogs(state_logs)
  /\ UNCHANGED <<now, sys_offset, orders, history, client, sync, view>>

CalculateDriverHoursFromStates(driver_uuid, start_ts, end_ts) ==
  /\ call = NoCall
  /\ call' = [fn |-> "calculate_driver_hours_from_states", driver_uuid |-> driver_uuid,
              start_ts |-> start_ts, end_ts |-> end_ts]
  /\ ret' = calculate_driver_hours_from_states(driver_uuid, start_ts, end_ts, state_logs, now)
  /\ state_logs' = CallersStateLogs(state_logs)
  /\ UNCHANGED <<now, sys_offset, orders, history, client, sync, view>>

InitStates ==
  /\ now \in StatesNows
  /\ sys_offset = 0
  /\ orders = {}
  /\ state_logs = <<>>
  /\ call = NoCall
  /\ ret = NoRet
  /\ history = <<>>
  /\ client = NoClient
  /\ sync = NoSync
  /\ view = NoView

NextStates ==
  \/ \E log \in StatesLogPool : AppendStateLog(log, MaxLogs)
  \/ CalculateHoursFromStates("d1", WinStart, WinEnd)
  \/ CalculateDriverHoursFromStates("d1", WinStart, WinEnd)

SpecStates == InitStates /\ [][NextStates]_vars

(***************************************************************************)
(* Reference semantics of a driver's state history, used by the claims:    *)
(* at every instant the driver is in the kind of the latest event at or    *)
(* before that instant.                                                    *)
(***************************************************************************)
Kind(state) ==
  IF Lower(state) = "waiting_orders" THEN "WAITING"
  ELSE IF Lower(state) \in {"has_order", "busy"} THEN "ENGAGED"
  ELSE "OFFLINE"

\* Seconds of [first event, horizon) spent in the kind, for the events of
\* the driver in list order.
KindSeconds(events, horizon, kind) ==
  LET points == {events[i].created : i \in 1..Len(events)} \cup {horizon}
      NextPoint(p) == CHOOSE q \in points : q > p /\ \A r \in points : r > p => q <= r
      LastAt(p) == CHOOSE i \in 1..Len(events) :
                     /\ events[i].created = p
                     /\ \A j \in 1..Len(events) : events[j].created = p => j <= i
      Span(p) == IF Kind(events[LastAt(p)].state) = kind THEN NextPoint(p) - p ELSE 0
  IN  SumFun([p \in {p \in points : p < horizon} |-> Span(p)])

AllInsideWindow(events, start_ts, end_ts) ==
  \A i \in 1..Len(events) : start_ts <= events[i].created /\ events[i].created < end_ts

ScenarioD ==
  <<[driver_uuid |-> "d1", created |-> BaseTs, state |-> "waiting_orders"],
    [driver_uuid |-> "d1", created |-> BaseTs + 600, state |-> "has_order"],
    [driver_uuid |-> "d1", created |-> BaseTs + 3600, state |-> "inactive"]>>

\* C3: the state-log reconstruction never counts a second of the window more
\* than once: waiting seconds + engaged seconds never exceed end - start.
C3_NeverDoubleCounts ==
  call.fn = "calculate_hours_from_states" =>
    ret.waiting_seconds + ret.ride_seconds <= call.end_ts - call.start_ts

\* C5: the online periods materialized from a driver's state logs are
\* chronologically ordered, pairwise non-overlapping, and each has
\* end >= start.
C5_PeriodsOrderedDisjoint ==
  call.fn = "calculate_driver_hours_from_states" =>
    LET p == ret.online_periods
    IN  /\ \A i \in 1..Len(p) : p[i][2] >= p[i][1]
        /\ \A i \in 1..Len(p), j \in 1..Len(p) :
             i < j => p[i][1] <= p[j][1] /\ p[i][2] <= p[j][1]

C5_Witness ==
  /\ call.fn = "calculate_driver_hours_from_states"
  /\ Len(ret.online_periods) >= 2
  /\ ret.online_periods[1][3] /= ret.online_periods[2][3]
  /\ ret.online_periods[1][2] > ret.online_periods[1][1]

\* C7: for events inside the window with the driver offline before it, each
\* span between consecutive events is attributed to the kind of the earlier
\* event, a waiting<->engaged change is a boundary and not a gap, and
\* waiting + engaged is the window-bounded online duration; the events
\* [waiting@T0, engaged@T0+600, offline@T0+3600] give 600 s and 3000 s.
C7_SpansAttributedToEarlierEvent ==
  call.fn = "calculate_hours_from_states" =>
    LET events == LogsOfDriver(call.driver_uuid, state_logs)
        horizon == Min2(call.end_ts, now)
    IN  AllInsideWindow(events, call.start_ts, call.end_ts) =>
          /\ ret.waiting_seconds = KindSeconds(events, horizon, "WAITING")
          /\ ret.ride_seconds = KindSeconds(events, horizon, "ENGAGED")
          /\ ret.total_online_seconds = ret.waiting_seconds + ret.ride_seconds
          /\ state_logs = ScenarioD =>
               ret.waiting_seconds = 600 /\ ret.ride_seconds = 3000

C7_Witness ==
  /\ call.fn = "calculate_hours_from_states"
  /\ state_logs = ScenarioD
  /\ ret.waiting_seconds = 600
  /\ ret.ride_seconds = 3000

(***************************************************************************)
(* Inputs of the order-based computations.                                 *)
(***************************************************************************)
Order(ref, driver, status, accepted, finished, distance, price, net, method) ==
  [order_reference |-> ref, driver_uuid |-> driver, order_status |-> status,
   order_accepted_timestamp |-> accepted, order_finished_timestamp |-> finished,
   ride_distance |-> distance, ride_price |-> price, net_earnings |-> net,
   payment_method |-> method]

OrderPool ==
  { \* 25 min for 8 km: inside [480 s, 2880 s]
    Order("r1", "d1", "finished", BaseTs, BaseTs + 1500, 8000, 4000, 3000, "cash"),
    \* 10 min for 20 km: below the minimum of 1200 s
    Order("r2", "d1", "finished", BaseTs + 2700, BaseTs + 3300, 20000, 9000, 7000, "app_payment"),
    \* 10 min for 1 km: above the maximum of 360 s
    Order("r3", "d1", "finished", BaseTs + 3300, BaseTs + 3900, 1000, 1500, 1100, "cash"),
    \* 150 min without a distance: above the flat cap
    Order("r4", "d1", "finished", BaseTs + 4500, BaseTs + 13500, None, 5000, 4000, "cash"),
    \* 5 min without a distance, accepted while r4 is running
    Order("r5", "d1", "finished", BaseTs + 5100, BaseTs + 5400, 0, 1000, 800, "app_payment"),
    Order("r6", "d1", "finished", BaseTs + 5700, BaseTs + 6000, 2000, 1200, 900, "cash"),
    \* r6 as first seen by a sync, before it finished
    Order("r6", "d1", "client_cancelled", BaseTs + 5700, None, None, 0, 0, "cash"),
    \* old data without an accepted timestamp
    Order("r7", "d1", "finished", None, BaseTs + 2000, 5000, 2500, 2000, "cash"),
    \* accepted and finished in the same second
    Order("r8", "d1", "finished", BaseTs + 7000, BaseTs + 7000, 8000, 3000, 2400, "cash"),
    Order("r9", "d2", "finished", BaseTs + 600, BaseTs + 2100, 8000, 4000, 3000, "cash") }

\* r1 finishes on the start of the window; r4 finishes on the end of the
\* first window and inside the second.
OrderWindows == {<<BaseTs + 1500, BaseTs + 13500>>, <<BaseTs + 1500, BaseTs + 14400>>}

(***************************************************************************)
(* Actions of the order specification.                                     *)
(***************************************************************************)
StoreOrder(order, bound) ==
  /\ call = NoCall
  /\ Cardinality(StoredOrders(orders, order)) <= bound
  /\ orders' = StoredOrders(orders, order)
  /\ UNCHANGED <<now, sys_offset, state_logs, call, ret, history, client, sync, view>>

CalculateActiveHoursFromOrders(driver_uuid, start_ts, end_ts) ==
  /\ call = NoCall
  /\ call' = [fn |-> "calculate_active_hours_from_orders", driver_uuid |-> driver_uuid,
              start_ts |-> start_ts, end_ts |-> end_ts]
  /\ ret' = calculate_active_hours_from_orders(orders, driver_uuid, start_ts, end_ts)
  /\ UNCHANGED <<now, sys_offset, orders, state_logs, history, client, sync, view>>

CalculateWaitingHoursFromOrders(driver_uuid, start_ts, end_ts) ==
  /\ call = NoCall
  /\ call' = [fn |-> "calculate_waiting_hours_from_orders", driver_uuid |-> driver_uuid,
              start_ts |-> start_ts, end_ts |-> end_ts]
  /\ ret' = calculate_waiting_hours_from_orders(orders, driver_uuid, start_ts, end_ts)
  /\ UNCHANGED <<now, sys_offset, orders, state_logs, history, client, sync, view>>

InitOrders ==
  /\ now = BaseTs + 4 * 3600
  /\ sys_offset = 0
  /\ orders = {}
  /\ state_logs = <<>>
  /\ call = NoCall
  /\ ret = NoRet
  /\ history = <<>>
  /\ client = NoClient
  /\ sync = NoSync
  /\ view = NoView

NextOrders ==
  \/ \E order \in OrderPool : StoreOrder(order, MaxOrders)
  \/ \E w \in OrderWindows : CalculateActiveHoursFromOrders("d1", w[1], w[2])
  \/ \E w \in OrderWindows : CalculateWaitingHoursFromOrders("d1", w[1], w[2])

SpecOrders == InitOrders /\ [][NextOrders]_vars

(***************************************************************************)
(* Claims about the order-based estimators.                                *)
(***************************************************************************)
CalledRows == TimedOrders(orders, call.driver_uuid, call.start_ts, call.end_ts)

RawDuration(order) == order.order_finished_timestamp - order.order_accepted_timestamp

HasDistance(order) == order.ride_distance /= None /\ order.ride_distance > 0

\* C4 as stated: the order-based active time is at most the naive sum of the
\* raw (finished_at - accepted_at) durations of the trips (taken before
\* the rounding to minutes, which the claim does not mean).
C4_ActiveAtMostRawSum ==
  call.fn = "calculate_active_hours_from_orders" =>
    ret.total_active_seconds
      <= SumSeq([i \in 1..Len(CalledRows) |-> RawDuration(CalledRows[i])])

\* C4 amended: before rounding, the active seconds are at most the sum over
\* the trips of the larger of the raw duration and the minimum plausible
\* time of the trip's distance; the returned hours are that sum rounded to
\* the minute and then to 0.01 h (at most 48 s away; 36 s is 0.01 h).
C4_ActiveAtMostRawOrMinTime ==
  call.fn = "calculate_active_hours_from_orders" =>
    /\ ret.total_active_seconds
         <= SumSeq([i \in 1..Len(CalledRows) |->
              IF RawDuration(CalledRows[i]) <= 0 THEN 0
              ELSE IF HasDistance(CalledRows[i])
                THEN Max2(RawDuration(CalledRows[i]), MinTime(CalledRows[i].ride_distance))
                ELSE RawDuration(CalledRows[i])])
    /\ Abs(36 * ret.active_hours - ret.total_active_seconds) <= 48

C4_Witness ==
  /\ call.fn = "calculate_active_hours_from_orders"
  /\ \E i \in 1..Len(CalledRows) :
       /\ HasDistance(CalledRows[i])
       /\ RawDuration(CalledRows[i]) < MinTime(CalledRows[i].ride_distance)
       /\ RawDuration(CalledRows[i]) > 0
  /\ \E i \in 1..Len(CalledRows) :
       /\ HasDistance(CalledRows[i])
       /\ RawDuration(CalledRows[i]) > MaxTime(CalledRows[i].ride_distance)

\* The claimed contribution of one gap between consecutive trips.
ClaimedGapSeconds(gap) ==
  IF 0 < gap /\ gap <= 1800 THEN gap
  ELSE IF 1800 < gap /\ gap <= 3600 THEN 1800
  ELSE 0

\* C8: each consecutive pair of trips (by accepted_at) contributes the full
\* gap when 0 < gap <= 1800 s, exactly 1800 s when 1800 s < gap <= 3600 s
\* and 0 otherwise; so the total is at most 1800 s times (trips - 1) and is
\* 0 for zero or one trip.
C8_WaitingGapRule ==
  call.fn = "calculate_waiting_hours_from_orders" =>
    LET n == Len(CalledRows)
        Gap(i) == CalledRows[i + 1].order_accepted_timestamp
                  - CalledRows[i].order_finished_timestamp
    IN  /\ ret.total_waiting_seconds
             = SumFun([i \in 1..(n - 1) |-> ClaimedGapSeconds(Gap(i))])
        /\ n >= 1 => ret.total_waiting_seconds <= 1800 * (n - 1)
        /\ n <= 1 => ret.total_waiting_seconds = 0 /\ ret.waiting_hours = 0
        /\ ret.waiting_hours = RoundMinutesToHours2(ret.total_waiting_seconds)

\* Three trips: a gap of 50 min (counted as 30) and a trip accepted before
\* the previous one finished (counted as 0).
C8_Witness ==
  /\ call.fn = "calculate_waiting_hours_from_orders"
  /\ Len(CalledRows) = 3
  /\ CalledRows[2].order_accepted_timestamp - CalledRows[1].order_finished_timestamp = 3000
  /\ CalledRows[3].order_accepted_timestamp < CalledRows[2].order_finished_timestamp
  /\ ret.total_waiting_seconds = 1800
  /\ ret.waiting_hours = 50

\* C9 as stated: for every trip with both timestamps the counted duration
\* lies within [distance_km/60 h, distance_km/10 h] when distance > 0 (a raw
\* duration inside the bounds is counted unchanged) and is at most 7200 s
\* when the distance is absent.
C9_DurationWithinBounds ==
  call.fn = "calculate_active_hours_from_orders" =>
    \A i \in 1..Len(CalledRows) :
      LET o == CalledRows[i]
      IN  IF HasDistance(o)
            THEN /\ MinTime(o.ride_distance) <= RideDuration(o)
                 /\ RideDuration(o) <= MaxTime(o.ride_distance)
                 /\ (MinTime(o.ride_distance) <= RawDuration(o)
                     /\ RawDuration(o) <= MaxTime(o.ride_distance))
                      => RideDuration(o) = RawDuration(o)
            ELSE RideDuration(o) <= 7200

\* C9 amended: the same for every trip with both timestamps and
\* finished_at > accepted_at; a trip that does not finish after it was
\* accepted counts for 0 s.  The total is the sum of the counted durations.
C9_DurationWithinBoundsWhenPositive ==
  call.fn = "calculate_active_hours_from_orders" =>
    /\ \A i \in 1..Len(CalledRows) :
         LET o == CalledRows[i]
         IN  IF RawDuration(o) <= 0 THEN RideDuration(o) = 0
             ELSE IF HasDistance(o)
               THEN /\ MinTime(o.ride_distance) <= RideDuration(o)
                    /\ RideDuration(o) <= MaxTime(o.ride_distance)
                    /\ (MinTime(o.ride_distance) <= RawDuration(o)
                        /\ RawDuration(o) <= MaxTime(o.ride_distance))
                         => RideDuration(o) = RawDuration(o)
               ELSE RideDuration(o) <= 7200 /\ RideDuration(o) <= RawDuration(o)
    /\ ret.total_active_seconds
         = SumFun([i \in 1..Len(CalledRows) |-> RideDuration(CalledRows[i])])
    /\ (Len(CalledRows) = 1 /\ CalledRows[1].order_reference = "r1")
         => ret.total_active_seconds = 1500 /\ ret.active_hours = 42

C9_Witness ==
  /\ call.fn = "calculate_active_hours_from_orders"
  /\ Len(CalledRows) = 3
  /\ \E i \in 1..3 : CalledRows[i].order_reference = "r1"
  /\ \E i \in 1..3 : CalledRows[i].order_reference = "r4"
  /\ \E i \in 1..3 : CalledRows[i].order_reference = "r2"

(***************************************************************************)
(* The statistics queries: orders are synced into the table, the caller    *)
(* fetches a state-log list, and one of the two stats functions is called. *)
(***************************************************************************)
Drivers == {"d1", "d2"}

StatsOrderPool ==
  { Order("r1", "d1", "finished", BaseTs, BaseTs + 1500, 8000, 4000, 3000, "cash"),
    Order("r2", "d1", "finished", BaseTs + 2700, BaseTs + 3300, 20000, 9000, 7000, "app_payment"),
    Order("r4", "d1", "finished", BaseTs + 4500, BaseTs + 13500, None, 5000, 4000, "cash"),
    Order("r7", "d1", "finished", None, BaseTs + 2000, 5000, 2500, 2000, "cash"),
    \* finished the day before
    Order("r0", "d1", "finished", BaseTs - Day, BaseTs - Day + 1200, 6000, 3500, 2800, "cash"),
    \* finished at 02:00 Romanian time of the day of BaseTs (23:00 UTC of
    \* the day before)
    Order("r10", "d1", "finished", 20000 * Day - 5400, 20000 * Day - 3600, 8000, 4000, 3000,
          "app_payment"),
    Order("r3", "d1", "client_cancelled", BaseTs + 3300, None, None, 0, 0, "cash"),
    Order("r9", "d2", "finished", BaseTs + 600, BaseTs + 2100, 8000, 4000, 3000, "cash") }

StatsLogPool ==
  { [driver_uuid |-> "d1", created |-> BaseTs, state |-> "waiting_orders"],
    [driver_uuid |-> "d1", created |-> BaseTs, state |-> "has_order"],
    [driver_uuid |-> "d1", created |-> BaseTs + 600, state |-> "has_order"],
    [driver_uuid |-> "d1", created |-> BaseTs + 3600, state |-> "inactive"],
    [driver_uuid |-> "d2", created |-> BaseTs + 600, state |-> "waiting_orders"] }

\* The hour after BaseTs, and the Romanian calendar day around it.
StatsWindows ==
  {<<BaseTs, BaseTs + 3600>>,
   <<20000 * Day - RomaniaOffset, 20001 * Day - RomaniaOffset>>}

GetDriverStatsByDateRange(driver_uuid, start_ts, end_ts) ==
  /\ call = NoCall
  /\ call' = [fn |-> "get_driver_stats_by_date_range", driver_uuid |-> driver_uuid,
              start_ts |-> start_ts, end_ts |-> end_ts]
  /\ ret' = get_driver_stats_by_date_range(orders, driver_uuid, start_ts, end_ts,
                                           state_logs, now)
  /\ state_logs' = CallersStateLogs(state_logs)
  /\ UNCHANGED <<now, sys_offset, orders, history, client, sync, view>>

GetDriverStatsByUuid(driver_uuid, days) ==
  /\ call = NoCall
  /\ call' = [fn |-> "get_driver_stats_by_uuid", driver_uuid |-> driver_uuid,
              days |-> days]
  /\ ret' = get_driver_stats_by_uuid(orders, driver_uuid, days, state_logs, now, sys_offset)
  /\ state_logs' = CallersStateLogs(state_logs)
  /\ UNCHANGED <<now, sys_offset, orders, history, client, sync, view>>

Init ==
  /\ now = BaseTs + 4 * 3600
  /\ sys_offset \in {0, RomaniaOffset}
  /\ orders = {}
  /\ state_logs = <<>>
  /\ call = NoCall
  /\ ret = NoRet
  /\ history = <<>>
  /\ client = NoClient
  /\ sync = NoSync
  /\ view = NoView

Next ==
  \/ \E order \in StatsOrderPool : StoreOrder(order, MaxStatsOrders)
  \/ \E log \in StatsLogPool : AppendStateLog(log, MaxStatsLogs)
  \/ \E driver_uuid \in Drivers, w \in StatsWindows :
       GetDriverStatsByDateRange(driver_uuid, w[1], w[2])
  \/ \E driver_uuid \in Drivers, days \in {0, 1, 2} :
       GetDriverStatsByUuid(driver_uuid, days)

Spec == Init /\ [][Next]_vars

(***************************************************************************)
(* Claims about the statistics queries.                                    *)
(***************************************************************************)
\* The two estimates of a date-range call, each computed on its own.
OrderActive ==
  calculate_active_hours_from_orders(orders, call.driver_uuid, call.start_ts,
                                     call.end_ts).active_hours
OrderWaiting ==
  calculate_waiting_hours_from_orders(orders, call.driver_uuid, call.start_ts,
                                      call.end_ts).waiting_hours
StateEstimate ==
  calculate_hours_from_states(call.driver_uuid, call.start_ts, call.end_ts, state_logs, now)

DateRangeStatsReturned ==
  call.fn = "get_driver_stats_by_date_range" /\ ret.kind = "stats"

HasWaitingToken ==
  \E i \in 1..Len(state_logs) :
    /\ state_logs[i].driver_uuid = call.driver_uuid
    /\ Lower(state_logs[i].state) = "waiting_orders"

\* C1: for every non-None result of get_driver_stats_by_date_range,
\* total_online_hours = hours_worked + waiting_hours, whichever source
\* supplied each term.
C1_TotalIsActivePlusWaiting ==
  DateRangeStatsReturned =>
    ret.total_online_hours = ret.hours_worked + ret.waiting_hours

\* Active hours from the state logs and waiting hours from the order gaps.
C1_Witness ==
  /\ DateRangeStatsReturned
  /\ HasWaitingToken
  /\ ret.hours_worked = StateEstimate.ride_hours
  /\ ret.hours_worked /= OrderActive
  /\ StateEstimate.waiting_hours = 0
  /\ ret.waiting_hours > 0

\* C2 as stated: exactly one source wins, active and waiting hours both come
\* from the state-log estimate or both from the order-based estimate.
C2_OneSourceWins ==
  DateRangeStatsReturned =>
    \/ ret.hours_worked = StateEstimate.ride_hours
         /\ ret.waiting_hours = StateEstimate.waiting_hours
    \/ ret.hours_worked = OrderActive /\ ret.waiting_hours = OrderWaiting

\* C2 amended: each term is one of the two estimates, never a blend, and the
\* terms are chosen separately.  Waiting hours are the state-log estimate
\* when the driver's events hold a waiting_orders token and that estimate is
\* not 0, else the order-gap estimate.  Active hours are the state-log ride
\* hours when the driver's events hold a waiting_orders token and the ride
\* hours are positive and less than 2 h away from the order-based estimate,
\* else the order-based estimate.
C2_EachTermFromOneSource ==
  DateRangeStatsReturned =>
    /\ ret.waiting_hours =
         IF HasWaitingToken /\ StateEstimate.waiting_hours /= 0
           THEN StateEstimate.waiting_hours ELSE OrderWaiting
    /\ ret.hours_worked =
         IF /\ HasWaitingToken
            /\ StateEstimate.ride_hours > 0
            /\ StateEstimate.ride_hours - OrderActive < 200
            /\ OrderActive - StateEstimate.ride_hours < 200
           THEN StateEstimate.ride_hours ELSE OrderActive

\* Waiting hours from the state logs next to active hours from the orders,
\* because the state-log ride hours are 2 h or more away.
C2_Witness ==
  /\ DateRangeStatsReturned
  /\ HasWaitingToken
  /\ ret.waiting_hours = StateEstimate.waiting_hours
  /\ ret.waiting_hours /= OrderWaiting
  /\ ret.hours_worked = OrderActive
  /\ StateEstimate.ride_hours >= OrderActive + 200

\* The finished trips of the called driver that the call's window holds.
TripsOfCall ==
  LET finished == {o \in orders : o.driver_uuid = call.driver_uuid
                                  /\ o.order_status = "finished"}
  IN  IF call.fn = "get_driver_stats_by_date_range"
        THEN {o \in finished : call.start_ts <= o.order_finished_timestamp
                               /\ o.order_finished_timestamp < call.end_ts}
      ELSE IF call.days = 0 THEN finished
      ELSE LET w == UuidWindow(call.days, now, sys_offset)
           IN  {o \in finished : w.start_ts <= o.order_finished_timestamp
                                 /\ o.order_finished_timestamp <= w.end_ts}

StatsCalled ==
  call.fn \in {"get_driver_stats_by_date_range", "get_driver_stats_by_uuid"}

\* C6: with zero finished trips in the resolved window the stats functions
\* return None, never a zero-filled stats object; with at least one they
\* return a stats object.
C6_NoneIffNoFinishedTrips ==
  StatsCalled =>
    /\ TripsOfCall = {} => ret = NoneRet
    /\ TripsOfCall /= {} =>
         ret.kind = "stats" /\ ret.orders_completed = Cardinality(TripsOfCall)

\* None although the driver has a finished trip outside the window.
C6_Witness ==
  /\ StatsCalled
  /\ ret = NoneRet
  /\ \E o \in orders : o.driver_uuid = call.driver_uuid /\ o.order_status = "finished"

\* C10: if no state events are available for the driver (an empty list, or a
\* list holding only other drivers' events), both active and waiting hours
\* of the result are the order-based estimates.
C10_NoEventsUsesOrderEstimates ==
  (StatsCalled /\ ret.kind = "stats"
     /\ LogsOfDriver(call.driver_uuid, state_logs) = <<>>) =>
    IF call.fn = "get_driver_stats_by_date_range"
      THEN ret.hours_worked = OrderActive /\ ret.waiting_hours = OrderWaiting
      ELSE /\ ret.ride_hours = RoundHours2(OrderSpanSeconds(TripsOfCall))
           /\ ret.hours_worked = ret.ride_hours
           /\ ret.waiting_hours = 0


HasEngagedToken ==
  \E i \in 1..Len(state_logs) :
    /\ state_logs[i].driver_uuid = call.driver_uuid
    /\ Lower(state_logs[i].state) \in {"has_order", "busy"}

LocalMidnight(ts) ==
  LET wall == ts + RomaniaOffset
  IN  wall - (wall % Day) - RomaniaOffset

\* The finished trips of the called driver in [start_ts, end_ts).
TripsBetween(start_ts, end_ts) ==
  {o \in orders : /\ o.driver_uuid = call.driver_uuid
                   /\ o.order_status = "finished"
                   /\ start_ts <= o.order_finished_timestamp
                   /\ o.order_finished_timestamp < end_ts}

\* C13: get_driver_stats_by_uuid with days = n resolves the window to
\* [local midnight of today - (n - 1) days, now): with n = 1 it is
\* [local_midnight(today), now), and the trips it counts are the finished
\* trips of that window.
C13_LastNDaysFromLocalMidnight ==
  (call.fn = "get_driver_stats_by_uuid" /\ call.days /= 0) =>
    LET trips == TripsBetween(LocalMidnight(now) - (call.days - 1) * Day, now)
    IN  /\ trips = {} => ret = NoneRet
        /\ trips /= {} =>
             ret.kind = "stats" /\ ret.orders_completed = Cardinality(trips)


(***************************************************************************)
(* FleetCommands._show_driver_stats: the calendar views hand a naive       *)
(* datetime (or a pair of them) and a view type to the handler, which      *)
(* resolves the window in Romanian time, converts it to UTC, decides       *)
(* whether to fetch the state logs and queries the statistics.             *)
(*                                                                         *)
(* A naive datetime is its wall-clock seconds since 1970-01-01 00:00; an   *)
(* aware pytz datetime is a record of its wall-clock seconds and the fixed *)
(* UTC offset of its tzinfo, which replace() and + timedelta keep.         *)
(***************************************************************************)
MaxCalendarOrders == 2
MaxCalendarLogs == 2

\* COMPANY_START_DATE = datetime(2025, 7, 28)
CompanyStartDate == 20297 * Day

\* Europe/Bucharest in 2025 and 2026 up to October: UTC+2 in winter, UTC+3
\* from 2025-03-30 01:00 UTC to 2025-10-26 01:00 UTC and again from
\* 2026-03-29 01:00 UTC.
WinterOffset == 2 * 3600
SummerOffset == 3 * 3600
SummerStartUtc == 20177 * Day + 3600
SummerEndUtc == 20387 * Day + 3600
NextSummerStartUtc == 20541 * Day + 3600

InSummerTime(ts) == (SummerStartUtc <= ts /\ ts < SummerEndUtc) \/ NextSummerStartUtc <= ts

\* The UTC offset of Europe/Bucharest at an instant.
RomaniaOffsetAt(ts) == IF InSummerTime(ts) THEN SummerOffset ELSE WinterOffset

\* The UTC offset romania_tz.localize(d) gives to a naive wall-clock value:
\* summer time when the value can only be read as summer time, else winter
\* time (is_dst = False for the repeated hour of autumn and the skipped hour
\* of spring).
LocalizeOffset(wall) ==
  IF InSummerTime(wall - SummerOffset) /\ InSummerTime(wall - WinterOffset)
    THEN SummerOffset ELSE WinterOffset

\* datetime.now(): the wall clock of the host, which runs in UTC or in
\* Europe/Bucharest.
SystemWall == now + (IF sys_offset = 0 THEN 0 ELSE RomaniaOffsetAt(now))

\* The first days of the months of 2025 and 2026 and of January 2027, as day
\* numbers.
MonthStartDays ==
  <<20089, 20120, 20148, 20179, 20209, 20240, 20270, 20301, 20332, 20362, 20393, 20423,
    20454, 20485, 20513, 20544, 20574, 20605, 20635, 20666, 20697, 20727, 20758, 20788,
    20819>>

\* d.replace(day=1), and the first day of the month after it.
FirstOfMonth(day) ==
  LET starts == {MonthStartDays[i] : i \in 1..Len(MonthStartDays)}
  IN  CHOOSE m \in starts : m <= day /\ \A k \in starts : k <= day => k <= m

FirstOfNextMonth(day) ==
  LET starts == {MonthStartDays[i] : i \in 1..Len(MonthStartDays)}
  IN  CHOOSE m \in starts : m > day /\ \A k \in starts : k > day => m <= k

\* d.replace(month=1, day=1), and the same day of the year after it.
FirstOfYear(day) ==
  LET starts == {MonthStartDays[i] : i \in {1, 13, 25}}
  IN  CHOOSE y \in starts : y <= day /\ \A k \in starts : k <= day => k <= y

FirstOfNextYear(day) ==
  LET starts == {MonthStartDays[i] : i \in {1, 13, 25}}
  IN  CHOOSE y \in starts : y > day /\ \A k \in starts : k > day => y <= k

\* to_romania(d).replace(hour=0, minute=0, second=0, microsecond=0)
RomaniaMidnight(d) == [wall |-> d - (d % Day), offset |-> LocalizeOffset(d)]

\* local.astimezone(utc), as an epoch time.
ToUtc(local) == local.wall - local.offset

\* local_start and local_end of the view type, converted to UTC.
ResolveWindow(view_type, first, last) ==
  LET midnight == RomaniaMidnight(first)
      day == midnight.wall \div Day
      local_start ==
        CASE view_type = "month" -> [midnight EXCEPT !.wall = FirstOfMonth(day) * Day]
          [] view_type = "year" -> [midnight EXCEPT !.wall = FirstOfYear(day) * Day]
          [] OTHER -> midnight
      local_end ==
        CASE view_type = "day" -> [local_start EXCEPT !.wall = @ + Day]
          [] view_type = "month" -> [local_start EXCEPT !.wall = FirstOfNextMonth(day) * Day]
          [] view_type = "year" -> [local_start EXCEPT !.wall = FirstOfNextYear(day) * Day]
          [] OTHER -> [RomaniaMidnight(last) EXCEPT !.wall = @ + Day]
  IN  [start_ts |-> ToUtc(local_start), end_ts |-> ToUtc(local_end)]

\* "Fetch state logs if within 31 days"
StateLogDays == 31

\* days_diff = (end_date - start_date).days; if days_diff <= 31
StateLogsRequested(start_ts, end_ts) == (end_ts - start_ts) \div Day <= StateLogDays

\* check_date_limits without the upper limit datetime.now().
check_date_limits_NoUpperLimit(check_date) == CompanyStartDate <= check_date

\* CalendarNavigationView.check_date_limits
check_date_limits(check_date) ==
  CompanyStartDate <= check_date /\ check_date <= SystemWall


\* The buttons of the views that are not disabled: days, weeks, months and
\* the days of a custom range go through check_date_limits, the end of a
\* custom range is not before its start, and the years run from the year of
\* COMPANY_START_DATE to the current one.
Selectable(view_type, first, last) ==
  CASE view_type = "year" ->
         /\ FirstOfYear(CompanyStartDate \div Day) * Day <= first
         /\ first <= SystemWall
    [] view_type = "custom" ->
         check_date_limits(first) /\ check_date_limits(last) /\ ~(last < first)
    [] OTHER -> check_date_limits(first)

\* The handler: window, state logs (an empty list when they are not
\* requested or the request fails), statistics.
ShowDriverStats(view_type, first, last, driver_uuid) ==
  /\ call = NoCall
  /\ Selectable(view_type, first, last)
  /\ \E api_ok \in BOOLEAN :
       LET window == ResolveWindow(view_type, first, last)
           requested == StateLogsRequested(window.start_ts, window.end_ts)
           logs == IF requested /\ api_ok THEN state_logs ELSE <<>>
           stats == get_driver_stats_by_date_range(orders, driver_uuid, window.start_ts,
                                                   window.end_ts, logs, now)
       IN  /\ call' = [fn |-> "_show_driver_stats", view_type |-> view_type,
                       first |-> first, last |-> last, driver_uuid |-> driver_uuid]
           /\ ret' = [kind |-> IF stats = NoneRet THEN "no_data" ELSE "embed",
                      start_ts |-> window.start_ts, end_ts |-> window.end_ts,
                      requested |-> requested, state_logs |-> logs, stats |-> stats]
  /\ UNCHANGED <<now, sys_offset, orders, state_logs, history, client, sync, view>>

(***************************************************************************)
(* Inputs of the calendar specification: the days around the end of summer *)
(* time on 2025-10-26, asked for late in the evening of that day or in the *)
(* morning of the next, and the days around the start of summer time on    *)
(* 2026-03-29, asked for in the morning of the day after.                  *)
(***************************************************************************)
CalendarNows ==
  {20387 * Day + 23 * 3600 + 1800, 20388 * Day + 8 * 3600, 20542 * Day + 8 * 3600}

\* 2025-10-24 .. 2025-10-28 and 2026-03-27 .. 2026-03-31
CalendarDays == (20385..20389) \cup (20539..20543)

\* The naive datetimes of the views carry the time of day at which the view
\* was opened; month and year buttons carry midnight.
ViewInputs ==
  LET tod == SystemWall % Day
      At(d) == d * Day + tod
  IN  {<<"day", At(d), At(d)>> : d \in CalendarDays}
        \cup {<<"week", At(20381), At(20387)>>, <<"week", At(20535), At(20541)>>}
        \cup {<<"month", d * Day, d * Day>> : d \in {20270, 20362, 20513}}
        \cup {<<"year", d * Day, d * Day>> : d \in {20089, 20454}}
        \cup {<<"custom", At(d), At(20387)>> : d \in {20356, 20357, 20387, 20388}}
        \cup {<<"custom", At(d), At(20541)>> : d \in {20509, 20510}}

CalendarOrderPool ==
  { \* finished 2025-10-25 21:30 UTC, 00:30 Romanian time on 2025-10-26
    Order("k1", "d1", "finished", 20386 * Day + 76500, 20386 * Day + 77400, 8000, 4000, 3000,
          "cash"),
    \* finished 2025-10-26 21:30 UTC, 23:30 Romanian time on 2025-10-26
    Order("k2", "d1", "finished", 20387 * Day + 76500, 20387 * Day + 77400, 8000, 4000, 3000,
          "app_payment"),
    \* finished 2025-10-24 21:00 UTC, midnight between 2025-10-24 and -25
    Order("k3", "d1", "finished", 20385 * Day + 74400, 20385 * Day + 75600, 8000, 4000, 3000,
          "cash"),
    \* finished 2026-03-28 21:30 UTC, 23:30 Romanian time on 2026-03-28
    Order("k4", "d1", "finished", 20540 * Day + 76500, 20540 * Day + 77400, 8000, 4000, 3000,
          "cash"),
    Order("k9", "d2", "finished", 20387 * Day + 34800, 20387 * Day + 36000, 8000, 4000, 3000,
          "cash") }

CalendarLogPool ==
  { [driver_uuid |-> "d1", created |-> 20386 * Day + 72000, state |-> "waiting_orders"],
    [driver_uuid |-> "d1", created |-> 20386 * Day + 75600, state |-> "has_order"],
    [driver_uuid |-> "d1", created |-> 20386 * Day + 81000, state |-> "inactive"] }

InitCalendar ==
  /\ now \in CalendarNows
  /\ sys_offset \in {0, RomaniaOffset}
  /\ orders = {}
  /\ state_logs = <<>>
  /\ call = NoCall
  /\ ret = NoRet
  /\ history = <<>>
  /\ client = NoClient
  /\ sync = NoSync
  /\ view = NoView

NextCalendar ==
  \/ \E order \in {o \in CalendarOrderPool : o.order_finished_timestamp <= now} :
       StoreOrder(order, MaxCalendarOrders)
  \/ \E log \in CalendarLogPool : AppendStateLog(log, MaxCalendarLogs)
  \/ \E input \in ViewInputs : ShowDriverStats(input[1], input[2], input[3], "d1")

SpecCalendar == InitCalendar /\ [][NextCalendar]_vars

(***************************************************************************)
(* Claims about the calendar windows.                                      *)
(***************************************************************************)
ShowDriverStatsCalled == call.fn = "_show_driver_stats"

\* C11: a window longer than 31 days gets no state-log request and the
\* order-based estimates; for every window of at most 31 days the state
\* logs are requested.
C11_StateLogsIffAtMost31Days ==
  ShowDriverStatsCalled =>
    /\ ret.end_ts - ret.start_ts > StateLogDays * Day =>
         /\ ~ret.requested
         /\ ret.state_logs = <<>>
         /\ ret.stats.kind = "stats" =>
              /\ ret.stats.hours_worked =
                   calculate_active_hours_from_orders(orders, call.driver_uuid, ret.start_ts,
                                                      ret.end_ts).active_hours
              /\ ret.stats.waiting_hours =
                   calculate_waiting_hours_from_orders(orders, call.driver_uuid, ret.start_ts,
                                                       ret.end_ts).waiting_hours
    /\ ret.end_ts - ret.start_ts <= StateLogDays * Day => ret.requested


DayWindowOf(d) ==
  LET day_date == d * Day + (SystemWall % Day)
  IN  ResolveWindow("day", day_date, day_date)

\* The days whose Day window counts the trip among its finished orders.
CountingDays(order) ==
  LET finished_day == order.order_finished_timestamp \div Day
  IN  {d \in (finished_day - 2)..(finished_day + 2) :
         order \in FinishedInWindow(orders, order.driver_uuid, DayWindowOf(d).start_ts,
                                    DayWindowOf(d).end_ts)}

\* C15: calendar windows are half-open and adjacent windows partition the
\* trips: every finished trip is counted in exactly one Day window, a trip
\* that finishes on the boundary of two windows only in the later one.
C15_DayWindowsPartition ==
  (ShowDriverStatsCalled /\ call.view_type = "day") =>
    \A o \in orders :
      (o.driver_uuid = call.driver_uuid /\ o.order_status = "finished") =>
        Cardinality(CountingDays(o)) = 1


(***************************************************************************)
(* Repeated runs: after a computation has returned, the clock moves on and *)
(* a computation is run again over the same orders table and the same      *)
(* state-log list.  history keeps the call, the result and the time of the *)
(* runs that have returned.                                                *)
(***************************************************************************)
MaxRepeatOrders == 1
MaxRepeatLogs == 2
MaxReruns == 1

RepeatOrderPool ==
  { Order("r1", "d1", "finished", BaseTs, BaseTs + 1500, 8000, 4000, 3000, "cash"),
    Order("r9", "d2", "finished", BaseTs + 600, BaseTs + 2100, 8000, 4000, 3000, "cash") }

RepeatLogPool ==
  { [driver_uuid |-> "d1", created |-> BaseTs, state |-> "waiting_orders"],
    [driver_uuid |-> "d1", created |-> BaseTs + 600, state |-> "has_order"],
    [driver_uuid |-> "d1", created |-> BaseTs + 3600, state |-> "inactive"] }

\* The seconds between the return of a run and the start of the next.
RepeatDelays == {0, 1800}

\* datetime.now() moves on between two runs.
ClockAdvances(delay) ==
  /\ call /= NoCall
  /\ Len(history) < MaxReruns
  /\ history' = Append(history, [call |-> call, ret |-> ret, now |-> now])
  /\ call' = NoCall
  /\ ret' = NoRet
  /\ now' = now + delay
  /\ UNCHANGED <<sys_offset, orders, state_logs, client, sync, view>>

InitRepeat ==
  /\ now = BaseTs + 4 * 3600
  /\ sys_offset = 0
  /\ orders = {}
  /\ state_logs = <<>>
  /\ call = NoCall
  /\ ret = NoRet
  /\ history = <<>>
  /\ client = NoClient
  /\ sync = NoSync
  /\ view = NoView

\* The table and the list are filled before the first run; the hour after
\* BaseTs has ended at every run, the Romanian day around it has not.
NextRepeat ==
  \/ \E order \in RepeatOrderPool : history = <<>> /\ StoreOrder(order, MaxRepeatOrders)
  \/ \E log \in RepeatLogPool : history = <<>> /\ AppendStateLog(log, MaxRepeatLogs)
  \/ \E w \in StatsWindows : GetDriverStatsByDateRange("d1", w[1], w[2])
  \/ \E w \in StatsWindows : CalculateHoursFromStates("d1", w[1], w[2])
  \/ \E delay \in RepeatDelays : ClockAdvances(delay)

SpecRepeat == InitRepeat /\ [][NextRepeat]_vars

(***************************************************************************)
(* Claims about repeated runs.                                             *)
(***************************************************************************)
\* C16 as stated: a run with the same driver, window, trips and events as an
\* earlier run returns the same statistics, whatever the wall clock.
C16_RerunIdentical ==
  \A i \in 1..Len(history) :
    (call /= NoCall /\ history[i].call = call) => ret = history[i].ret

\* C16 amended: a run with the same driver, window, trips and events as an
\* earlier run returns the same statistics when the window had ended by the
\* earlier run (end <= now) or both runs read the same time.  For a window
\* that is still open the state-log hours of an online driver run up to the
\* time of the call, min(end, now), and change from run to run.
C16_RerunIdenticalOnceWindowEnded ==
  \A i \in 1..Len(history) :
    (/\ call /= NoCall
     /\ history[i].call = call
     /\ (call.end_ts <= history[i].now \/ now = history[i].now)) =>
      ret = history[i].ret

\* The statistics of an ended window, with waiting hours from the state
\* logs, run again half an hour later.
C16_Witness ==
  \E i \in 1..Len(history) :
    /\ history[i].call = call
    /\ call.fn = "get_driver_stats_by_date_range"
    /\ call.end_ts <= history[i].now
    /\ now > history[i].now
    /\ ret = history[i].ret
    /\ ret.kind = "stats"
    /\ HasWaitingToken
    /\ ret.waiting_hours = StateEstimate.waiting_hours
    /\ ret.waiting_hours > 0


DailyWindow(date, system_offset) ==
  LET start_of_day == date - (date % Day)
  IN  [start_ts |-> start_of_day - system_offset,
       end_ts |-> start_of_day + Day - 1 - system_offset]

DailyRows(table, window) ==
  {o \in table : /\ o.order_status = "finished"
                 /\ o.order_finished_timestamp /= None
                 /\ o.order_finished_timestamp >= window.start_ts
                 /\ o.order_finished_timestamp <= window.end_ts}

\* MAX(order_finished_timestamp) - MIN(order_accepted_timestamp) over the
\* rows with an accepted timestamp, in seconds; 0 without such rows.
DailySpanSeconds(rows) ==
  LET timed == {o \in rows : o.order_accepted_timestamp /= None}
      first_order == CHOOSE a \in {o.order_accepted_timestamp : o \in timed} :
                       \A o \in timed : a <= o.order_accepted_timestamp
      last_order == CHOOSE f \in {o.order_finished_timestamp : o \in timed} :
                      \A o \in timed : f >= o.order_finished_timestamp
  IN  IF timed /= {} /\ first_order /= 0 /\ last_order /= 0
        THEN last_order - first_order ELSE 0

\* One dictionary per driver with finished orders on the day; hours_worked
\* in centi-hours (the code rounds it to 0.1 h), kms_traveled in units of
\* 0.1 km, earnings_per_hour in bani per hour.
get_driver_daily_stats(table, date, system_offset) ==
  LET rows == DailyRows(table, DailyWindow(date, system_offset))
  IN  [d \in {o.driver_uuid : o \in rows} |->
         LET mine == {o \in rows : o.driver_uuid = d}
             row == MainStats(mine)
             seconds == DailySpanSeconds(mine)
         IN  [kind |-> "basic",
              driver_uuid |-> d,
              orders_completed |-> row.orders_completed,
              gross_earnings |-> row.gross_earnings,
              net_earnings |-> row.net_earnings,
              kms_traveled |-> RoundDiv(row.total_distance_m, 100),
              cash_collected |-> row.cash_collected,
              hours_worked |-> 10 * RoundDiv(Max2(seconds, 0), 360),
              earnings_per_hour |-> Ratio(3600 * row.gross_earnings, seconds)]]

\* The basic dictionaries with the hours of get_driver_stats_by_date_range
\* for the same day, or the basic dictionary when that returns None.
get_enhanced_daily_stats(table, report_date, logs, current_ts, system_offset) ==
  LET basic_stats == get_driver_daily_stats(table, report_date, system_offset)
      start_ts == report_date - (report_date % Day) - system_offset
      end_ts == start_ts + Day
  IN  [d \in DOMAIN basic_stats |->
         LET driver == basic_stats[d]
             detailed_stats == get_driver_stats_by_date_range(table, d, start_ts, end_ts,
                                                              logs, current_ts)
         IN  IF detailed_stats /= NoneRet
               THEN [kind |-> "enhanced",
                     driver_uuid |-> d,
                     orders_completed |-> driver.orders_completed,
                     gross_earnings |-> driver.gross_earnings,
                     net_earnings |-> driver.net_earnings,
                     kms_traveled |-> driver.kms_traveled,
                     cash_collected |-> driver.cash_collected,
                     hours_worked |-> detailed_stats.hours_worked,
                     total_online_hours |-> detailed_stats.total_online_hours,
                     waiting_hours |-> detailed_stats.waiting_hours,
                     earnings_per_hour |-> Ratio(100 * driver.gross_earnings,
                                                 detailed_stats.total_online_hours)]
               ELSE driver]

\* A value the embed does not show.
NotShown == None

\* The "Fleet Averages" field of send_summary_report: a conditional
\* expression that shows the averages per order and per hour when there are
\* active hours, else the average per km when there are kilometres, else the
\* average per order; nothing without orders or hours.  In bani.
SummaryAverages(driver_stats) ==
  LET total_orders == SumFun([d \in DOMAIN driver_stats |-> driver_stats[d].orders_completed])
      total_gross == SumFun([d \in DOMAIN driver_stats |-> driver_stats[d].gross_earnings])
      total_kms == SumFun([d \in DOMAIN driver_stats |-> driver_stats[d].kms_traveled])
      total_hours ==
        SumFun([d \in DOMAIN driver_stats |->
                  IF driver_stats[d].kind = "enhanced"
                    THEN driver_stats[d].total_online_hours
                    ELSE driver_stats[d].hours_worked])
      total_active_hours ==
        SumFun([d \in DOMAIN driver_stats |-> driver_stats[d].hours_worked])
      none == [per_order |-> NotShown, per_hour_total |-> NotShown,
               per_hour_active |-> NotShown, per_km |-> NotShown]
  IN  IF total_orders > 0 /\ total_hours > 0
        THEN IF total_active_hours > 0
               THEN [none EXCEPT !.per_order = Divide(total_gross, total_orders),
                                 !.per_hour_total = Divide(100 * total_gross, total_hours),
                                 !.per_hour_active =
                                   Divide(100 * total_gross, total_active_hours)]
             ELSE IF total_kms > 0
               THEN [none EXCEPT !.per_km = Divide(10 * total_gross, total_kms)]
             ELSE [none EXCEPT !.per_order = Divide(total_gross, total_orders)]
        ELSE none

\* The "Efficiency" field of send_individual_reports for one driver: shown
\* with orders and hours; the hourly figures of an enhanced dictionary only
\* with active hours; the figure per km only with kilometres.  In bani.
IndividualEfficiency(driver) ==
  LET hours_for_calc == IF driver.kind = "enhanced" THEN driver.total_online_hours
                        ELSE driver.hours_worked
      none == [per_order |-> NotShown, per_hour_total |-> NotShown,
               per_hour_active |-> NotShown, per_hour |-> NotShown, per_km |-> NotShown]
      earnings ==
        IF driver.kind = "enhanced"
          THEN IF driver.hours_worked > 0
                 THEN [none EXCEPT
                         !.per_hour_total =
                           Divide(100 * driver.gross_earnings, driver.total_online_hours),
                         !.per_hour_active =
                           Divide(100 * driver.gross_earnings, driver.hours_worked)]
                 ELSE none
          ELSE [none EXCEPT !.per_hour = driver.earnings_per_hour]
  IN  IF hours_for_calc > 0 /\ driver.orders_completed > 0
        THEN IF driver.kms_traveled > 0
               THEN [earnings EXCEPT
                       !.per_order = Divide(driver.gross_earnings, driver.orders_completed),
                       !.per_km = Divide(10 * driver.gross_earnings, driver.kms_traveled)]
               ELSE [earnings EXCEPT
                       !.per_order = Divide(driver.gross_earnings, driver.orders_completed)]
        ELSE none

GetDriverDailyStats(date) ==
  /\ call = NoCall
  /\ call' = [fn |-> "get_driver_daily_stats", date |-> date]
  /\ ret' = [kind |-> "daily", results |-> get_driver_daily_stats(orders, date, sys_offset)]
  /\ UNCHANGED <<now, sys_offset, orders, state_logs, history, client, sync, view>>

\* now_romania.hour and .minute are inside 23:55 .. 00:05.
AroundMidnight(now_romania) ==
  LET hour == (now_romania % Day) \div 3600
      minute == (now_romania % 3600) \div 60
  IN  (hour = 23 /\ minute >= 55) \/ (hour = 0 /\ minute <= 5)

\* yesterday.replace(hour=0, minute=0, second=0, microsecond=0, tzinfo=None)
ReportDate(now_romania) == (now_romania - Day) - ((now_romania - Day) % Day)

\* The outcome of the scheduled task.  It runs the report only around
\* midnight in Romania and with a report channel; the report is for the day
\* before; a state-log answer with another code gives an empty list, an
\* exception ends the task; the summary is sent when the day has driver
\* activity, and then the individual report of every driver of the day
\* with a channel.
midnight_report(now_romania, channel, response, driver_channels, logs, driver_stats) ==
  IF ~AroundMidnight(now_romania) THEN [kind |-> "skipped"]
  ELSE IF ~channel THEN [kind |-> "no_channel"]
  ELSE IF response = "exception" THEN [kind |-> "failed"]
  ELSE IF DOMAIN driver_stats = {} THEN [kind |-> "no_activity"]
  ELSE [kind |-> "report",
        report_date |-> ReportDate(now_romania),
        state_logs |-> logs,
        driver_stats |-> driver_stats,
        averages |-> SummaryAverages(driver_stats),
        individual |->
          [d \in DOMAIN driver_stats \cap driver_channels |->
             IndividualEfficiency(driver_stats[d])]]

MidnightReport ==
  /\ call = NoCall
  /\ call' = [fn |-> "midnight_report"]
  /\ \E channel \in BOOLEAN, response \in {"ok", "error_code", "exception"},
        driver_channels \in SUBSET Drivers :
       \E logs \in {IF response = "ok" THEN state_logs ELSE <<>>} :
         \E driver_stats \in
              {get_enhanced_daily_stats(orders, ReportDate(now + RomaniaOffset), logs,
                                        now, sys_offset)} :
           ret' = midnight_report(now + RomaniaOffset, channel, response, driver_channels,
                                  logs, driver_stats)
  /\ UNCHANGED <<now, sys_offset, orders, state_logs, history, client, sync, view>>

\* 2024-10-05 00:00 in Romania, when the task runs its report, and the
\* afternoon before.
ReportNows == {20000 * Day + 21 * 3600, BaseTs + 4 * 3600}

InitReport ==
  /\ now \in ReportNows
  /\ sys_offset \in {0, RomaniaOffset}
  /\ orders = {}
  /\ state_logs = <<>>
  /\ call = NoCall
  /\ ret = NoRet
  /\ history = <<>>
  /\ client = NoClient
  /\ sync = NoSync
  /\ view = NoView

NextReport ==
  \/ \E order \in StatsOrderPool : StoreOrder(order, MaxStatsOrders)
  \/ \E log \in StatsLogPool : AppendStateLog(log, MaxStatsLogs)
  \/ \E driver_uuid \in Drivers, w \in StatsWindows :
       GetDriverStatsByDateRange(driver_uuid, w[1], w[2])
  \/ \E date \in {20000 * Day, BaseTs} : GetDriverDailyStats(date)
  \/ MidnightReport

SpecReport == InitReport /\ [][NextReport]_vars


(***************************************************************************)
(* Claims about the totals and the ratios.                                 *)
(***************************************************************************)
\* The hours of the called window when the table holds only the rows of
\* `table`.
HoursOver(table) ==
  StatsHours(table, call.driver_uuid, call.start_ts, call.end_ts, state_logs, now)

\* The totals of the result count every finished trip of the window.
TotalsCountEveryTrip ==
  /\ ret.orders_completed = Cardinality(TripsOfCall)
  /\ ret.gross_earnings = SumFun([o \in TripsOfCall |-> o.ride_price])
  /\ ret.net_earnings = SumFun([o \in TripsOfCall |-> o.net_earnings])
  /\ ret.total_distance_m =
       SumFun([o \in {t \in TripsOfCall : t.ride_distance /= None} |-> o.ride_distance])
  /\ ret.cash_collected =
       SumFun([o \in {t \in TripsOfCall : t.payment_method = "cash"} |-> o.net_earnings])

\* C17 as stated: a finished trip without accepted_at, or without a
\* distance, is left out of the active-duration and waiting-gap sums (the
\* hours are those of the table without such trips) and is still counted in
\* orders_completed, earnings, distance and cash.
C17_IncompleteTripsExcluded ==
  DateRangeStatsReturned =>
    LET complete == {o \in orders : o.order_accepted_timestamp /= None
                                    /\ o.ride_distance /= None}
    IN  /\ ret.hours_worked = HoursOver(complete).active_hours
        /\ ret.waiting_hours = HoursOver(complete).waiting_hours
        /\ TotalsCountEveryTrip

\* C17 amended: a finished trip without accepted_at is left out of the
\* active-duration and waiting-gap sums and is still counted in
\* orders_completed, earnings, distance and cash.  A trip without a distance
\* that has both timestamps stays in the duration and gap sums (its duration
\* capped at 2 h) and adds nothing to the distance.
C17_TripsWithoutAcceptedExcluded ==
  DateRangeStatsReturned =>
    LET timed == {o \in orders : o.order_accepted_timestamp /= None}
    IN  /\ ret.hours_worked = HoursOver(timed).active_hours
        /\ ret.waiting_hours = HoursOver(timed).waiting_hours
        /\ TotalsCountEveryTrip

\* A window with a trip without accepted_at next to a timed trip: two orders
\* completed, active hours of the timed trip alone.
C17_Witness ==
  /\ DateRangeStatsReturned
  /\ \E o \in TripsOfCall : o.order_accepted_timestamp = None
  /\ \E o \in TripsOfCall : o.order_accepted_timestamp /= None
  /\ ret.orders_completed = 2
  /\ ret.hours_worked > 0
  /\ ret.hours_worked = OrderActive


\* The net earnings of the cash trips among `trips`.
CashOf(trips) ==
  SumFun([o \in {t \in trips : t.payment_method = "cash"} |-> o.net_earnings])

\* The finished trips of a driver that finish on the day of `date`, a naive
\* datetime of the host.
TripsOfDay(driver_uuid, date) ==
  LET start_ts == date - (date % Day) - sys_offset
  IN  {o \in orders : /\ o.driver_uuid = driver_uuid
                      /\ o.order_status = "finished"
                      /\ start_ts <= o.order_finished_timestamp
                      /\ o.order_finished_timestamp < start_ts + Day}

\* C18: cash_collected is the sum of net_earnings over exactly the finished
\* trips of the window whose payment method is cash, in the date-range
\* statistics and in the daily statistics of every driver.
C18_CashIsNetOfCashTrips ==
  /\ DateRangeStatsReturned => ret.cash_collected = CashOf(TripsOfCall)
  /\ call.fn = "get_driver_daily_stats" =>
       \A d \in Drivers :
         IF TripsOfDay(d, call.date) = {}
           THEN d \notin DOMAIN ret.results
           ELSE /\ d \in DOMAIN ret.results
                /\ ret.results[d].cash_collected = CashOf(TripsOfDay(d, call.date))

\* A cash trip and a card trip in one window: the cash collected is the net
\* earnings of the cash trip alone.
C18_Witness ==
  /\ DateRangeStatsReturned
  /\ \E o \in TripsOfCall : o.payment_method = "cash"
  /\ \E o \in TripsOfCall : o.payment_method /= "cash"
  /\ ret.cash_collected > 0
  /\ ret.cash_collected < ret.net_earnings

\* The ratios of a dictionary of the daily report.
DailyRatiosDefined(stats, trips) ==
  /\ stats.earnings_per_hour /= ZeroDivisionError
  /\ (stats.kind = "enhanced" /\ stats.total_online_hours = 0) => stats.earnings_per_hour = 0
  /\ (stats.kind = "basic" /\ DailySpanSeconds(trips) = 0) => stats.earnings_per_hour = 0

\* C19: every derived ratio is 0 when its denominator is 0 (earnings per
\* active hour without active hours, per online hour without online hours,
\* per km without distance, average distance without orders), and neither
\* the date-range statistics nor the daily report divides by zero.
C19_RatiosZeroOnZeroDenominator ==
  /\ DateRangeStatsReturned =>
       /\ ZeroDivisionError \notin {ret.earnings_per_hour, ret.earnings_per_hour_active,
                                     ret.earnings_per_km, ret.avg_distance}
       /\ ret.total_online_hours = 0 => ret.earnings_per_hour = 0
       /\ ret.hours_worked = 0 => ret.earnings_per_hour_active = 0
       /\ ret.total_distance_m = 0 => ret.earnings_per_km = 0
       /\ ret.orders_completed = 0 => ret.avg_distance = 0
  /\ call.fn = "get_driver_daily_stats" =>
       \A d \in DOMAIN ret.results :
         DailyRatiosDefined(ret.results[d], TripsOfDay(d, call.date))
  /\ (call.fn = "midnight_report" /\ ret.kind = "report") =>
       /\ \A d \in DOMAIN ret.driver_stats :
            DailyRatiosDefined(ret.driver_stats[d], TripsOfDay(d, ret.report_date))
       /\ ZeroDivisionError \notin {ret.averages.per_order, ret.averages.per_hour_total,
                                     ret.averages.per_hour_active, ret.averages.per_km}
       /\ \A d \in DOMAIN ret.individual :
            ZeroDivisionError \notin {ret.individual[d].per_order,
                                      ret.individual[d].per_hour_total,
                                      ret.individual[d].per_hour_active,
                                      ret.individual[d].per_hour,
                                      ret.individual[d].per_km}

\* Statistics of a window whose only trip has no accepted timestamp: no
\* active and no online hours, and both hourly ratios are 0.
C19_Witness ==
  /\ DateRangeStatsReturned
  /\ ret.gross_earnings > 0
  /\ ret.total_online_hours = 0
  /\ ret.earnings_per_hour = 0
  /\ ret.earnings_per_hour_active = 0
  /\ ret.earnings_per_km > 0


(***************************************************************************)
(* The state before the window: events at two times before WinStart and at *)
(* two times inside the window.                                            *)
(***************************************************************************)
MaxSeedLogs == 3

SeedTimes == {BaseTs - 1200, BaseTs - 600, BaseTs + 600, BaseTs + 3600}

SeedLogPool ==
  {[driver_uuid |-> "d1", created |-> t, state |-> s] :
      t \in SeedTimes, s \in {"waiting_orders", "has_order", "inactive"}}
  \cup {[driver_uuid |-> "d1", created |-> BaseTs - 600, state |-> "busy"]}

InitSeed ==
  /\ now \in StatesNows
  /\ sys_offset = 0
  /\ orders = {}
  /\ state_logs = <<>>
  /\ call = NoCall
  /\ ret = NoRet
  /\ history = <<>>
  /\ client = NoClient
  /\ sync = NoSync
  /\ view = NoView

NextSeed ==
  \/ \E log \in SeedLogPool : AppendStateLog(log, MaxSeedLogs)
  \/ CalculateHoursFromStates("d1", WinStart, WinEnd)

SpecSeed == InitSeed /\ [][NextSeed]_vars

\* The kind of the most recent event of `events` before start_ts (of the
\* later one in the list when two have the same time), OFFLINE without one.
SeedKind(events, start_ts) ==
  LET B == {i \in 1..Len(events) : events[i].created < start_ts}
      latest == CHOOSE i \in B :
                  \A j \in B : \/ events[j].created < events[i].created
                               \/ (events[j].created = events[i].created /\ j <= i)
  IN  IF B = {} THEN "OFFLINE" ELSE Kind(events[latest].state)

EventsFrom(events, start_ts) ==
  SelectSeq(events, LAMBDA log : log.created >= start_ts)

FirstTime(events) ==
  CHOOSE t \in {events[i].created : i \in 1..Len(events)} :
    \A i \in 1..Len(events) : t <= events[i].created

\* C21: the seed state is the state of the most recent event before start.
\* With an online seed the time from start to the first in-window event is
\* added to the kind of the seed, and nothing else changes; with no earlier
\* event or an offline seed the result is that of the in-window events
\* alone, and no time is counted before the first in-window online event.
C21_SeedState ==
  call.fn = "calculate_hours_from_states" =>
    LET events == LogsOfDriver(call.driver_uuid, state_logs)
        seed == SeedKind(events, call.start_ts)
        inside == EventsFrom(events, call.start_ts)
        alone == calculate_hours_from_states(call.driver_uuid, call.start_ts, call.end_ts,
                                             inside, now)
        lead == IF inside = <<>> THEN 0 ELSE FirstTime(inside) - call.start_ts
        online == {inside[i].created : i \in {j \in 1..Len(inside) :
                                                Kind(inside[j].state) /= "OFFLINE"}}
    IN  /\ ret.total_online_seconds = ret.waiting_seconds + ret.ride_seconds
        /\ (inside /= <<>> /\ FirstTime(inside) < call.end_ts) =>
             /\ ret.waiting_seconds =
                  alone.waiting_seconds + (IF seed = "WAITING" THEN lead ELSE 0)
             /\ ret.ride_seconds =
                  alone.ride_seconds + (IF seed = "ENGAGED" THEN lead ELSE 0)
        /\ seed = "OFFLINE" =>
             \A t \in {Min2(call.end_ts, now)} \cup online :
               (\A u \in online : t <= u) =>
                 ret.total_online_seconds <= Min2(call.end_ts, now) - t

\* Engaged 20 minutes before the window, waiting 10 minutes before it and
\* offline 10 minutes after its start: 600 s of waiting and no engaged time.
C21_Witness ==
  /\ call.fn = "calculate_hours_from_states"
  /\ state_logs = <<[driver_uuid |-> "d1", created |-> BaseTs - 1200, state |-> "has_order"],
                    [driver_uuid |-> "d1", created |-> BaseTs - 600, state |-> "waiting_orders"],
                    [driver_uuid |-> "d1", created |-> BaseTs + 600, state |-> "inactive"]>>
  /\ ret.waiting_seconds = 600
  /\ ret.ride_seconds = 0


\* The driver's history as the window sees it: the state before the window
\* as an event on start_ts, then the events inside [start_ts, end_ts).
WindowTimeline(events, start_ts, end_ts) ==
  LET B == {i \in 1..Len(events) : events[i].created < start_ts}
      latest == CHOOSE i \in B :
                  \A j \in B : \/ events[j].created < events[i].created
                               \/ (events[j].created = events[i].created /\ j <= i)
      seed == IF B = {} THEN <<>>
              ELSE <<[driver_uuid |-> events[latest].driver_uuid, created |-> start_ts,
                      state |-> events[latest].state]>>
  IN  seed \o SelectSeq(events, LAMBDA log : start_ts <= log.created /\ log.created < end_ts)

\* C22: once the window end has been reached, a driver still online after
\* the last event of the window has the open interval closed at the window
\* end: exactly end - last event time is added to the kind of the last
\* state and nothing when that state is offline, so the totals are those of
\* the driver's history up to the window end.
C22_OpenIntervalClosedAtEnd ==
  (call.fn = "calculate_hours_from_states" /\ now >= call.end_ts) =>
    LET timeline == WindowTimeline(LogsOfDriver(call.driver_uuid, state_logs),
                                   call.start_ts, call.end_ts)
    IN  /\ ret.waiting_seconds = KindSeconds(timeline, call.end_ts, "WAITING")
        /\ ret.ride_seconds = KindSeconds(timeline, call.end_ts, "ENGAGED")


(***************************************************************************)
(* calculate_online_hours_from_states                                      *)
(***************************************************************************)
\* One iteration of its loop: active, online and busy open a period, and
\* inactive and offline close one; any other token is passed over.
OnlineLoopStep(acc, log) ==
  LET timestamp == log.created
      state == Lower(log.state)
  IN  IF state \in {"active", "online", "busy"}
        THEN IF acc.online_start = None
               THEN [acc EXCEPT !.online_start = timestamp]
               ELSE acc
      ELSE IF state \in {"inactive", "offline"} /\ acc.online_start /= None
        THEN [total_online_seconds |->
                acc.total_online_seconds + Max2(timestamp - acc.online_start, 0),
              online_start |-> None]
      ELSE acc

RECURSIVE OnlineLoop(_, _)
OnlineLoop(acc, driver_logs) ==
  IF driver_logs = <<>> THEN acc
  ELSE OnlineLoop(OnlineLoopStep(acc, Head(driver_logs)), Tail(driver_logs))

\* "If still online at the end of the period".
OnlineStillOnline(acc, end_ts, current_ts) ==
  IF acc.online_start /= None /\ Min2(end_ts, current_ts) > acc.online_start
    THEN acc.total_online_seconds + (Min2(end_ts, current_ts) - acc.online_start)
    ELSE acc.total_online_seconds

calculate_online_hours_from_states(driver_uuid, start_ts, end_ts, logs, current_ts) ==
  LET driver_logs == SortByCreated(LogsInRange(driver_uuid, start_ts, end_ts, logs))
      acc0 == [total_online_seconds |-> 0, online_start |-> None]
      seconds == IF driver_logs = <<>> THEN 0
                 ELSE OnlineStillOnline(OnlineLoop(acc0, driver_logs), end_ts, current_ts)
  IN  [kind |-> "online_hours",
       total_online_seconds |-> seconds,
       total_online_hours |-> RoundHours2(seconds)]

CalculateOnlineHoursFromStates(driver_uuid, start_ts, end_ts) ==
  /\ call = NoCall
  /\ call' = [fn |-> "calculate_online_hours_from_states", driver_uuid |-> driver_uuid,
              start_ts |-> start_ts, end_ts |-> end_ts]
  /\ ret' = calculate_online_hours_from_states(driver_uuid, start_ts, end_ts, state_logs, now)
  /\ state_logs' = CallersStateLogs(state_logs)
  /\ UNCHANGED <<now, sys_offset, orders, history, client, sync, view>>

(***************************************************************************)
(* Histories in the two vocabularies of the state-log API.                 *)
(***************************************************************************)
MaxTokenLogs == 3

TokenTimes == {BaseTs + 600, BaseTs + 1200, BaseTs + 3600}

BothVocabularies == {"waiting_orders", "has_order", "inactive", "active", "busy", "offline"}

TokenLogPool ==
  {[driver_uuid |-> "d1", created |-> t, state |-> s] :
      t \in TokenTimes, s \in BothVocabularies}

InitTokens ==
  /\ now = WinEnd + 1200
  /\ sys_offset = 0
  /\ orders = {}
  /\ state_logs = <<>>
  /\ call = NoCall
  /\ ret = NoRet
  /\ history = <<>>
  /\ client = NoClient
  /\ sync = NoSync
  /\ view = NoView

NextTokens ==
  \/ \E log \in TokenLogPool : AppendStateLog(log, MaxTokenLogs)
  \/ CalculateHoursFromStates("d1", WinStart, WinEnd)
  \/ CalculateDriverHoursFromStates("d1", WinStart, WinEnd)
  \/ CalculateOnlineHoursFromStates("d1", WinStart, WinEnd)

SpecTokens == InitTokens /\ [][NextTokens]_vars

\* The token of the other vocabulary with the same canonical state.
OtherVocabulary(state) ==
  CASE state = "waiting_orders" -> "active"
    [] state = "has_order" -> "busy"
    [] state = "inactive" -> "offline"
    [] state = "active" -> "waiting_orders"
    [] state = "busy" -> "has_order"
    [] state = "offline" -> "inactive"

Translated(logs) ==
  [i \in 1..Len(logs) |-> [logs[i] EXCEPT !.state = OtherVocabulary(logs[i].state)]]

\* C23: every raw token of either vocabulary is normalized to one canonical
\* state, identically in every hours computation: the same history written
\* in the other vocabulary gives the same waiting, engaged and online
\* totals.
C23_SameTotalsInEitherVocabulary ==
  LET other == Translated(state_logs)
  IN  /\ call.fn = "calculate_hours_from_states" =>
           LET r == calculate_hours_from_states(call.driver_uuid, call.start_ts,
                                                call.end_ts, other, now)
           IN  /\ ret.waiting_seconds = r.waiting_seconds
               /\ ret.ride_seconds = r.ride_seconds
      /\ call.fn = "calculate_driver_hours_from_states" =>
           LET r == calculate_driver_hours_from_states(call.driver_uuid, call.start_ts,
                                                       call.end_ts, other, now)
           IN  /\ ret.waiting_hours = r.waiting_hours
               /\ ret.active_hours = r.active_hours
      /\ call.fn = "calculate_online_hours_from_states" =>
           ret.total_online_seconds =
             calculate_online_hours_from_states(call.driver_uuid, call.start_ts,
                                                call.end_ts, other, now).total_online_seconds


(***************************************************************************)
(* BoltOAuthClient (oauth/client.py).  The variable client holds the       *)
(* object and the coroutines that use it:                                  *)
(*   token         "none", "valid", "expired", or "malformed" for a token  *)
(*                 response stored without expires_in;                     *)
(*   lock, waiters _token_lock, an asyncio.Lock: its holder or "free", and *)
(*                 the queue of the tasks that wait for it, woken in order;*)
(*   refresh_task  _refresh_task: "None", the id of a task, or "finished"; *)
(*   tasks         the frame of every live task: make_request coroutines   *)
(*                 and _schedule_refresh tasks.                            *)
(* A step of a task runs from one await to the next.                       *)
(***************************************************************************)
\* One attempt more than max_retries.
max_retries_Four == 3 + 1

\* ClientConfig.max_retries
max_retries == 3

backoff_factor == 2

RequesterIds == {"r1", "r2"}

ScheduledIds == {"s1", "s2", "s3"}

\* Outcomes of session.request: statuses 200, 401, 429 with a Retry-After
\* of seconds (or none: 60) or with a Retry-After that is an HTTP date,
\* 500, another 4xx, and aiohttp.ClientError raised by the request.
Responses == {"200", "401", "429", "429_date", "500", "404", "network_error"}

RetryAfters == {60}

\* Outcomes of the token request: a token, a token without expires_in, and
\* an error status or a network error.
TokenResponses == {"ok", "no_expires_in", "http_error"}

is_token_expired(c) == c.token /= "valid"

Requester ==
  [kind |-> "make_request", pc |-> "get_valid_token", attempt |-> 0, requests |-> 0,
   last |-> "none", delay |-> 0, result |-> "none"]

Scheduled == [kind |-> "_schedule_refresh", pc |-> "sleep"]

Finished(frame, result) == [frame EXCEPT !.pc = "done", !.result = result]

\* The end of an iteration of "for attempt in range(max_retries)".
NextAttempt(frame) ==
  IF frame.attempt + 1 >= max_retries
    THEN Finished([frame EXCEPT !.attempt = @ + 1], "MaxRetries")
    ELSE [frame EXCEPT !.attempt = @ + 1, !.pc = "get_valid_token"]

\* "except aiohttp.ClientError".
OnClientError(frame) ==
  IF frame.attempt = max_retries - 1
    THEN Finished(frame, "ClientError")
    ELSE [frame EXCEPT !.pc = "sleep", !.delay = backoff_factor ^ frame.attempt]

RemoveTask(c, t) ==
  [c EXCEPT !.tasks = [u \in (DOMAIN c.tasks) \ {t} |-> c.tasks[u]],
            !.waiters = SelectSeq(c.waiters, LAMBDA u : u /= t),
            !.refresh_task = IF @ = t THEN "finished" ELSE @]

\* Task.cancel() for the task held in _refresh_task: a task that sleeps or
\* waits for the lock ends in its CancelledError handler; the running task
\* itself goes on to its end.
CancelRefreshTask(c, running) ==
  IF c.refresh_task \in DOMAIN c.tasks /\ c.refresh_task /= running
    THEN RemoveTask(c, c.refresh_task)
    ELSE c

\* The lock can be taken at once.
LockFree_Ignored(c) == TRUE

LockFree(c) == c.lock = "free" /\ c.waiters = <<>>

\* What a task does once it holds the lock.
Enter(c, t) ==
  LET frame == c.tasks[t]
  IN  IF frame.kind = "make_request" /\ frame.pc \in {"get_valid_token", "wait_token"}
        THEN IF is_token_expired(c)
               THEN [c EXCEPT !.lock = t, !.tasks[t].pc = "refresh_token"]
               ELSE [c EXCEPT !.lock = "free", !.tasks[t].pc = "request"]
      ELSE IF frame.kind = "make_request"
        THEN [c EXCEPT !.lock = t, !.tasks[t].pc = "refresh_401"]
      ELSE [c EXCEPT !.lock = t, !.tasks[t].pc = "refresh"]

\* "async with self._token_lock": enter, or join the queue of waiters.
Acquire(c, t, wait_pc) ==
  IF LockFree(c) THEN Enter(c, t)
  ELSE [c EXCEPT !.waiters = Append(@, t), !.tasks[t].pc = wait_pc]

\* The part of _refresh_token after the token request, with the lock
\* released as the caller leaves "async with".
refresh_token(c, t, response) ==
  LET new == CHOOSE s \in ScheduledIds : s \notin DOMAIN c.tasks
      cancelled == CancelRefreshTask(c, t)
  IN  IF response = "ok"
        THEN [cancelled EXCEPT !.token = "valid",
                               !.tasks = [u \in (DOMAIN cancelled.tasks) \cup {new} |->
                                            IF u = new THEN Scheduled ELSE cancelled.tasks[u]],
                               !.refresh_task = new,
                               !.lock = "free"]
      ELSE IF response = "no_expires_in"
        THEN [cancelled EXCEPT !.token = "malformed", !.lock = "free"]
      ELSE [c EXCEPT !.lock = "free"]

(***************************************************************************)
(* Steps of a make_request coroutine.                                      *)
(***************************************************************************)
\* The top of an attempt: get_valid_token().
GetValidToken(t) ==
  /\ t \in DOMAIN client.tasks
  /\ client.tasks[t].kind = "make_request"
  /\ client.tasks[t].pc = "get_valid_token"
  /\ client' = Acquire(client, t, "wait_token")
  /\ UNCHANGED <<now, sys_offset, orders, state_logs, call, ret, history, sync, view>>

\* The lock is released and the first waiter enters.
LockGranted(t) ==
  /\ client.lock = "free"
  /\ client.waiters /= <<>>
  /\ Head(client.waiters) = t
  /\ client' = Enter([client EXCEPT !.waiters = Tail(@)], t)
  /\ UNCHANGED <<now, sys_offset, orders, state_logs, call, ret, history, sync, view>>

\* The token request of a make_request coroutine ends.
RequesterRefreshed(t, response) ==
  /\ t \in DOMAIN client.tasks
  /\ client.tasks[t].kind = "make_request"
  /\ client.tasks[t].pc \in {"refresh_token", "refresh_401"}
  /\ LET c == refresh_token(client, t, response)
         frame == client.tasks[t]
     IN  client' =
           [c EXCEPT !.tasks[t] =
              IF response = "http_error" THEN OnClientError(frame)
              ELSE IF response = "no_expires_in" THEN Finished(frame, "OtherError")
              ELSE IF frame.pc = "refresh_token" THEN [frame EXCEPT !.pc = "request"]
              ELSE NextAttempt(frame)]
  /\ UNCHANGED <<now, sys_offset, orders, state_logs, call, ret, history, sync, view>>

\* session.request answers or raises.
RequestAnswered(t, response, retry_after) ==
  /\ t \in DOMAIN client.tasks
  /\ client.tasks[t].kind = "make_request"
  /\ client.tasks[t].pc = "request"
  /\ LET frame == [client.tasks[t] EXCEPT !.requests = @ + 1, !.last = response]
     IN  client' =
           IF response = "401"
             THEN Acquire([client EXCEPT !.tasks[t] = frame], t, "wait_401")
           ELSE [client EXCEPT !.tasks[t] =
                   IF response = "200" THEN Finished(frame, "returned")
                   ELSE IF response = "429"
                     THEN [frame EXCEPT !.pc = "sleep", !.delay = retry_after]
                   ELSE IF response = "429_date" THEN Finished(frame, "OtherError")
                   ELSE IF response = "500"
                     THEN [frame EXCEPT !.pc = "sleep",
                                        !.delay = backoff_factor ^ frame.attempt]
                   ELSE OnClientError(frame)]
  /\ UNCHANGED <<now, sys_offset, orders, state_logs, call, ret, history, sync, view>>

\* asyncio.sleep returns and the loop goes to its next attempt.
SleepDone(t) ==
  /\ t \in DOMAIN client.tasks
  /\ client.tasks[t].kind = "make_request"
  /\ client.tasks[t].pc = "sleep"
  /\ client' = [client EXCEPT !.tasks[t] = NextAttempt([@ EXCEPT !.delay = 0])]
  /\ UNCHANGED <<now, sys_offset, orders, state_logs, call, ret, history, sync, view>>

(***************************************************************************)
(* Steps of a _schedule_refresh task.                                      *)
(***************************************************************************)
ScheduledWakes(t) ==
  /\ t \in DOMAIN client.tasks
  /\ client.tasks[t].kind = "_schedule_refresh"
  /\ client.tasks[t].pc = "sleep"
  /\ client' = Acquire(client, t, "lock_wait")
  /\ UNCHANGED <<now, sys_offset, orders, state_logs, call, ret, history, sync, view>>

\* Its token request ends, and with it the task.
ScheduledRefreshed(t, response) ==
  /\ t \in DOMAIN client.tasks
  /\ client.tasks[t].kind = "_schedule_refresh"
  /\ client.tasks[t].pc = "refresh"
  /\ client' = RemoveTask(refresh_token(client, t, response), t)
  /\ UNCHANGED <<now, sys_offset, orders, state_logs, call, ret, history, sync, view>>

\* time.time() + refresh_buffer reaches expires_at.
TokenExpires ==
  /\ client.token = "valid"
  /\ client' = [client EXCEPT !.token = "expired"]
  /\ UNCHANGED <<now, sys_offset, orders, state_logs, call, ret, history, sync, view>>

TaskStep(t) ==
  \/ GetValidToken(t)
  \/ LockGranted(t)
  \/ \E response \in TokenResponses : RequesterRefreshed(t, response)
  \/ \E response \in Responses, retry_after \in RetryAfters :
       RequestAnswered(t, response, retry_after)
  \/ SleepDone(t)
  \/ ScheduledWakes(t)
  \/ \E response \in TokenResponses : ScheduledRefreshed(t, response)

NextClient ==
  \/ \E t \in RequesterIds \cup ScheduledIds : TaskStep(t)
  \/ TokenExpires

InitClient(requesters) ==
  /\ now = BaseTs
  /\ sys_offset = 0
  /\ orders = {}
  /\ state_logs = <<>>
  /\ call = NoCall
  /\ ret = NoRet
  /\ history = <<>>
  /\ client \in {[token |-> token, lock |-> "free", waiters |-> <<>>,
                  refresh_task |-> "None", tasks |-> [t \in requesters |-> Requester]] :
                   token \in {"none", "valid"}}
  /\ sync = NoSync
  /\ view = NoView

\* One make_request call.
InitRequest == InitClient({"r1"})

SpecRequest == InitRequest /\ [][NextClient]_vars

\* Every task that can take a step takes one: a request is answered or
\* raises, a sleep ends, and the lock wakes its waiters in order.
SpecRequestFair ==
  SpecRequest /\ \A t \in RequesterIds \cup ScheduledIds : WF_vars(TaskStep(t))


(***************************************************************************)
(* Claims about make_request.                                              *)
(***************************************************************************)
RequesterFrames == {client.tasks[t] : t \in RequesterIds \cap DOMAIN client.tasks}

\* make_request makes at most 3 attempts, returns on the first successful
\* response and otherwise ends by raising the last network error or "Max
\* retries exceeded".
C24_RaisesNetworkErrorOrMaxRetries ==
  client /= NoClient =>
    \A frame \in RequesterFrames :
      /\ frame.requests <= 3
      /\ frame.pc = "done" => frame.result \in {"returned", "ClientError", "MaxRetries"}

\* What every call has made and how it has ended.
AttemptsAndResults ==
  \A frame \in RequesterFrames :
    /\ frame.requests <= 3
    /\ frame.requests <= frame.attempt + 1
    /\ frame.pc = "done" <=> frame.result /= "none"
    /\ frame.result = "returned" => frame.last = "200"
    /\ frame.result = "MaxRetries" => frame.attempt = 3
    /\ frame.result = "ClientError" => frame.attempt = 2
    /\ frame.result = "OtherError" =>
         frame.last = "429_date" \/ client.token = "malformed"

\* What the call does with the answer to a request.
AnswerHandled ==
  \A t \in RequesterIds \cap DOMAIN client.tasks :
    LET before == client.tasks[t]
        after == client'.tasks[t]
    IN  after.requests = before.requests + 1 =>
          /\ after.last = "200" => after.result = "returned"
          /\ after.last = "401" => after.pc \in {"refresh_401", "wait_401"}
          /\ after.last = "429" => after.pc = "sleep" /\ after.delay \in RetryAfters
          /\ after.last = "500" => after.pc = "sleep" /\ after.delay = 2 ^ before.attempt
          /\ after.last \in {"404", "network_error"} =>
               IF before.attempt = 2 THEN after.result = "ClientError"
               ELSE after.pc = "sleep" /\ after.delay = 2 ^ before.attempt

\* C24: make_request makes at most 3 attempts for any sequence of server
\* responses: a 401 forces a token refresh and retries, a 429 waits
\* Retry-After and retries, a 5xx or a network error backs off 2^attempt
\* seconds and retries; it returns on the first successful response and
\* otherwise ends by raising: the last client error, "Max retries exceeded",
\* or at once an exception that is no client error; it never loops for ever.
C24_ThreeAttemptsThenEnds ==
  /\ [](client /= NoClient => AttemptsAndResults)
  /\ [][AnswerHandled]_vars
  /\ <>(client.tasks["r1"].pc = "done")

\* Three attempts answered 401: three forced refreshes, then "Max retries
\* exceeded".
C24_Witness ==
  /\ client /= NoClient
  /\ client.tasks["r1"].result = "MaxRetries"
  /\ client.tasks["r1"].requests = 3
  /\ client.tasks["r1"].last = "401"


(***************************************************************************)
(* Concurrent users of one client: two make_request calls and the          *)
(* scheduled refresh tasks.                                                *)
(***************************************************************************)
InitRefresh == InitClient(RequesterIds)

SpecRefresh == InitRefresh /\ [][NextClient]_vars

\* The tasks inside _refresh_token.
Refreshing ==
  {t \in DOMAIN client.tasks : client.tasks[t].pc \in {"refresh_token", "refresh_401", "refresh"}}

\* The scheduled refresh tasks that have not been cancelled and have not
\* ended.
PendingScheduled ==
  {t \in DOMAIN client.tasks : client.tasks[t].kind = "_schedule_refresh"}

\* C25: token refreshes are mutually exclusive: under any interleaving of
\* get_valid_token calls, the scheduled refresh and the refresh forced by a
\* 401, at most one _refresh_token runs at a time, by the holder of the
\* lock, and at most one scheduled refresh task is pending, the one that
\* _refresh_task holds.
C25_OneRefreshAtATime ==
  client /= NoClient =>
    /\ Cardinality(Refreshing) <= 1
    /\ \A t \in Refreshing : client.lock = t
    /\ Cardinality(PendingScheduled) <= 1
    /\ \A t \in PendingScheduled : client.refresh_task = t

\* A refresh forced by a 401 runs while the scheduled refresh task and the
\* other call wait for the lock.
C25_Witness ==
  /\ client /= NoClient
  /\ \E t \in Refreshing : client.tasks[t].pc = "refresh_401"
  /\ Len(client.waiters) = 2
  /\ \E i \in 1..2 : client.tasks[client.waiters[i]].kind = "_schedule_refresh"


(***************************************************************************)
(* sync_orders.  The variable sync holds the orders the API returns, the   *)
(* write lock of the SQLite file, the rows of sync_status and the frame of *)
(* every run; orders is the committed orders table.  Every run has its own *)
(* connection: its INSERTs stay in its transaction until its commit, and   *)
(* the connection with an open write transaction holds the write lock of   *)
(* the file.  A step of a run goes from one await of get_fleet_orders to   *)
(* the next: the stores of a page never interleave with another run.       *)
(***************************************************************************)
MaxApiOrders == 4

\* limit=1000 and the limit of 10,000 orders of a full sync, scaled to 2
\* and 4.
PageLimit == 2
SafetyLimit == 4

SyncRuns == {"run1", "run2"}

\* The i-th order of the API; the fourth has no driver_uuid, which the
\* orders table does not accept (NOT NULL).
ApiOrder(i) ==
  [order_reference |-> i, order_created_timestamp |-> BaseTs - 1000 + 100 * i,
   driver_uuid |-> IF i = 4 THEN "None" ELSE "d1"]

IdleRun ==
  [pc |-> "idle", full_sync |-> FALSE, start_ts |-> 0, offset |-> 0, new_orders |-> 0,
   updated_orders |-> 0, requested |-> <<>>, written |-> {}, stop |-> "none",
   result |-> [status |-> "none"]]

MaxCreated(table) ==
  IF table = {} THEN None
  ELSE CHOOSE m \in {o.order_created_timestamp : o \in table} :
         \A o \in table : o.order_created_timestamp <= m

\* start_date of the run: one second after the newest stored order, or 30
\* days back in a full sync and with an empty table.
SyncStart(table, full_sync, current_ts) ==
  LET last_timestamp == MaxCreated(table)
      full == full_sync \/ last_timestamp = None \/ last_timestamp = 0
  IN  [full_sync |-> full,
       start_ts |-> IF full THEN current_ts - 30 * Day ELSE last_timestamp + 1]

\* The orders of the API from start_ts on, one page from the offset.
ApiPage(api, start_ts, offset) ==
  LET found == SelectSeq(api, LAMBDA o : o.order_created_timestamp >= start_ts)
  IN  SubSeq(found, offset + 1, Min2(offset + PageLimit, Len(found)))

\* The rows of a transaction written over the table.
Committed(table, written) ==
  {o \in table : \A w \in written : w.order_reference /= o.order_reference} \cup written

\* The connection of the run can write: no other connection has an open
\* write transaction.
CanWrite(s, r) == s.writer \in {"none", r}

\* _store_order that returns True for every order.
store_order_AlwaysTrue(s, r, order) == TRUE

\* The value _store_order returns: False when the INSERT raises, because
\* the file is locked by another connection or the row is refused.
store_order(s, r, order) == CanWrite(s, r) /\ order.driver_uuid /= "None"

\* The safety limit without the test of full_sync.
LimitReached_AnySync(full_sync, offset) == offset >= SafetyLimit

\* "if full_sync and offset >= 10000".
LimitReached(full_sync, offset) == full_sync /\ offset >= SafetyLimit

\* "for order in orders: if self._store_order(conn, order)" and
\* "offset += len(orders)".
StorePage(s, r, page) ==
  LET frame == s.runs[r]
      stored == {page[i] : i \in {j \in 1..Len(page) : store_order(s, r, page[j])}}
  IN  [s EXCEPT !.writer = IF CanWrite(s, r) THEN r ELSE @,
                !.runs[r].written = Committed(frame.written, stored),
                !.runs[r].new_orders = @ + Cardinality(stored),
                !.runs[r].updated_orders = @ + (Len(page) - Cardinality(stored)),
                !.runs[r].offset = @ + Len(page)]

\* After the loop: conn.commit(), the INSERT into sync_status and its
\* commit, and the returned dictionary; the INSERT raises when another
\* connection holds the write lock.
SyncFinish(s, r, stop) ==
  LET frame == s.runs[r]
      released == [s EXCEPT !.writer = IF @ = r THEN "none" ELSE @]
  IN  IF CanWrite(released, r)
        THEN [released EXCEPT
                !.status_rows = Append(@, [run |-> r, orders_synced |-> frame.new_orders]),
                !.runs[r] = [frame EXCEPT
                   !.pc = "done", !.stop = stop, !.written = {},
                   !.result = [status |-> "success", new_orders |-> frame.new_orders,
                               updated_orders |-> frame.updated_orders,
                               total_processed |->
                                 frame.new_orders + frame.updated_orders]]]
        ELSE [released EXCEPT
                !.runs[r] = [frame EXCEPT !.pc = "done", !.stop = stop, !.written = {},
                                          !.result = [status |-> "raised"]]]

\* sync_orders up to its first request for a page.
SyncOrders(r, full_sync) ==
  /\ sync.runs[r].pc = "idle"
  /\ LET start == SyncStart(orders, full_sync, now)
     IN  sync' = [sync EXCEPT !.runs[r] =
                    [IdleRun EXCEPT !.pc = "fetch", !.full_sync = start.full_sync,
                                    !.start_ts = start.start_ts, !.requested = <<0>>]]
  /\ UNCHANGED <<now, sys_offset, orders, state_logs, call, ret, history, client, view>>

\* get_fleet_orders answers: the page, a non-zero code, or an exception.
PageFetched(r, answer) ==
  /\ sync.runs[r].pc = "fetch"
  /\ LET frame == sync.runs[r]
         page == ApiPage(sync.api, frame.start_ts, frame.offset)
         s == StorePage(sync, r, page)
         offset == s.runs[r].offset
         stop == IF answer = "exception" THEN "exception"
                 ELSE IF answer = "code" THEN "code"
                 ELSE IF page = <<>> THEN "empty"
                 ELSE IF LimitReached(frame.full_sync, offset) THEN "limit"
                 ELSE "none"
     IN  /\ sync' = IF stop \in {"exception", "code", "empty"} THEN SyncFinish(sync, r, stop)
                    ELSE IF stop = "limit" THEN SyncFinish(s, r, stop)
                    ELSE [s EXCEPT !.runs[r].requested = Append(@, offset)]
         /\ orders' = IF stop = "none" THEN orders
                      ELSE Committed(orders, IF stop = "limit" THEN s.runs[r].written
                                             ELSE frame.written)
  /\ UNCHANGED <<now, sys_offset, state_logs, call, ret, history, client, view>>

NextSync(runs) ==
  \/ \E r \in runs, full_sync \in BOOLEAN : SyncOrders(r, full_sync)
  \/ \E r \in runs, answer \in {"page", "code", "exception"} : PageFetched(r, answer)

\* The API holds the first n orders; the table is empty, or holds an order
\* older than these, or the second of them, from an earlier sync.
InitSync ==
  /\ now = BaseTs
  /\ sys_offset = 0
  /\ orders \in {{}, {ApiOrder(0)}, {ApiOrder(2)}}
  /\ state_logs = <<>>
  /\ call = NoCall
  /\ ret = NoRet
  /\ history = <<>>
  /\ client = NoClient
  /\ sync \in {[api |-> [i \in 1..n |-> ApiOrder(i)], writer |-> "none",
                status_rows |-> <<>>, runs |-> [r \in SyncRuns |-> IdleRun]] :
                 n \in 0..MaxApiOrders}
  /\ view = NoView

\* One run.
SpecSync == InitSync /\ [][NextSync({"run1"})]_vars

\* The API answers every request.
SpecSyncFair == SpecSync /\ WF_vars(NextSync({"run1"}))

\* Overlapping runs: the scheduled sync and the commands.
SpecSyncOverlap == InitSync /\ [][NextSync(SyncRuns)]_vars


(***************************************************************************)
(* Claims about sync_orders.                                               *)
(***************************************************************************)
\* The orders the API holds for the run, and those of them it has
\* processed.
FoundFor(frame) ==
  SelectSeq(sync.api, LAMBDA o : o.order_created_timestamp >= frame.start_ts)

ProcessedBy(frame) == {FoundFor(frame)[i] : i \in 1..frame.offset}

PagingOfRun ==
  LET frame == sync.runs["run1"]
  IN  /\ \A i \in 1..Len(frame.requested), j \in 1..Len(frame.requested) :
           i < j => frame.requested[i] < frame.requested[j]
      /\ frame.offset <= Len(FoundFor(frame))
      /\ frame.pc = "fetch" => frame.requested[Len(frame.requested)] = frame.offset
      /\ frame.pc = "done" <=> frame.stop /= "none"
      /\ frame.stop = "limit" => frame.full_sync /\ frame.offset >= SafetyLimit
      /\ frame.stop = "empty" => frame.offset = Len(FoundFor(frame))

OffsetGrowsByPage ==
  LET before == sync.runs["run1"]
      after == sync'.runs["run1"]
  IN  /\ (before.pc = "fetch" /\ after.pc = "fetch") =>
           /\ after.offset > before.offset
           /\ after.offset - before.offset =
                Len(ApiPage(sync.api, before.start_ts, before.offset))
      /\ (before.pc = "fetch" /\ after.stop \in {"empty", "code", "exception"}) =>
           after.offset = before.offset

\* C26: for a finite API result set sync_orders terminates: the offset
\* strictly increases by the size of each non-empty page, each page is
\* requested once, paging stops at the first empty page, non-zero code or
\* exception, and the safety limit stops the loop only in a full sync.
C26_PagingTerminates ==
  /\ [](sync /= NoSync => PagingOfRun)
  /\ [][OffsetGrowsByPage]_vars
  /\ <>(sync.runs["run1"].pc = "done")

\* An incremental sync over four orders: three requests, and the limit not
\* applied at offset 4.
C26_Witness ==
  /\ sync /= NoSync
  /\ sync.runs["run1"].stop = "empty"
  /\ ~sync.runs["run1"].full_sync
  /\ sync.runs["run1"].requested = <<0, 2, 4>>

\* C27: when a page fetch raises or returns a non-zero code, paging stops,
\* the orders stored from earlier pages are committed, a sync_status row is
\* inserted and the result has status 'success'; an order whose store fails
\* is counted in updated_orders, not in new_orders.
C27_ErrorKeepsEarlierPages ==
  (sync /= NoSync /\ sync.runs["run1"].pc = "done") =>
    LET frame == sync.runs["run1"]
        stored == {o \in ProcessedBy(frame) : o.driver_uuid /= "None"}
    IN  /\ stored \subseteq orders
        /\ frame.result.status = "success"
        /\ frame.result.new_orders = Cardinality(stored)
        /\ frame.result.updated_orders = Cardinality(ProcessedBy(frame) \ stored)
        /\ sync.status_rows = <<[run |-> "run1", orders_synced |-> Cardinality(stored)]>>
        /\ sync.writer = "none"

\* The third request raises after two pages with three orders stored and
\* one refused.
C27_Witness ==
  /\ sync /= NoSync
  /\ sync.runs["run1"].stop = "exception"
  /\ sync.runs["run1"].result.status = "success"
  /\ sync.runs["run1"].result.new_orders = 3
  /\ sync.runs["run1"].result.updated_orders = 1
  /\ Cardinality(orders) = 4

\* The orders a run with this start would store alone.
StoredAlone(frame) ==
  LET found == FoundFor(frame)
      reach == IF frame.full_sync /\ Len(found) > SafetyLimit THEN SafetyLimit
               ELSE Len(found)
  IN  {found[i] : i \in {j \in 1..reach : found[j].driver_uuid /= "None"}}

\* C28: for any interleaving of concurrent sync_orders runs against the same
\* API data, the orders table ends with one row per order_reference and
\* with every order a single run would have stored: no order is lost
\* because two syncs overlapped.
C28_NoOrderLostByOverlap ==
  (sync /= NoSync /\ \A r \in SyncRuns : sync.runs[r].stop \in {"empty", "limit"}) =>
    /\ \A o1, o2 \in orders : o1.order_reference = o2.order_reference => o1 = o2
    /\ \A r \in SyncRuns : StoredAlone(sync.runs[r]) \subseteq orders


(***************************************************************************)
(* The schedule of midnight_report: the loop runs the task at 21:00 and    *)
(* 22:00 UTC of every day; history keeps one record per run.  The host     *)
(* runs in UTC (sys_offset = 0) or in Europe/Bucharest.                    *)
(***************************************************************************)
MaxTriggers == 4

\* Seconds between the scheduled time and datetime.now() in the task.
TriggerDelays == {0, 2}

\* 21:00 UTC of 2025-08-01 and 2025-12-01, and of the days before the clock
\* changes of 2025-10-26 and 2026-03-29.
ScheduleStarts ==
  {20301 * Day + 21 * 3600, 20423 * Day + 21 * 3600,
   20386 * Day + 21 * 3600, 20540 * Day + 21 * 3600}

\* Orders finished at 01:00 Romanian time of 2025-10-25 and of 2026-03-28.
ScheduleOrderPool ==
  { Order("r1", "d1", "finished", 20386 * Day - 7200 - 1500, 20386 * Day - 7200,
          8000, 4000, 3000, "cash"),
    Order("r2", "d1", "finished", 20539 * Day + 23 * 3600 - 1500, 20539 * Day + 23 * 3600,
          8000, 4000, 3000, "cash") }

\* The scheduled time after a run.
NextTrigger(ts) ==
  LET scheduled == ts - (ts % 3600)
  IN  IF scheduled % Day = 21 * 3600 THEN scheduled + 3600 ELSE scheduled + 23 * 3600

\* The UTC offset timestamp() gives to a naive datetime on the host.
HostOffset(naive) == IF sys_offset = 0 THEN 0 ELSE LocalizeOffset(naive)

\* start_ts and end_ts of get_driver_daily_stats for the date.
HostDailyWindow(date) ==
  [start_ts |-> date - HostOffset(date),
   end_ts |-> (date + Day - 1) - HostOffset(date + Day - 1)]

\* One iteration of the loop: the task runs at the scheduled time and the
\* loop sleeps until the next one.
ScheduledMidnightReport ==
  /\ Len(history) < MaxTriggers
  /\ \E channel \in BOOLEAN, response \in {"ok", "error_code", "exception"},
        driver_channels \in SUBSET Drivers, delay \in TriggerDelays :
       \E now_romania \in {now + RomaniaOffsetAt(now)} :
         \E driver_stats \in
              {get_enhanced_daily_stats(orders, ReportDate(now_romania), <<>>, now,
                                        HostOffset(ReportDate(now_romania)))} :
           /\ ret' = midnight_report(now_romania, channel, response, driver_channels,
                                     <<>>, driver_stats)
           /\ history' = Append(history,
                                [at |-> now,
                                 now_romania |-> now_romania,
                                 kind |-> ret'.kind,
                                 report_date |-> ReportDate(now_romania),
                                 window |-> HostDailyWindow(ReportDate(now_romania))])
           /\ now' = NextTrigger(now) + delay
  /\ call' = [fn |-> "midnight_report"]
  /\ UNCHANGED <<sys_offset, orders, state_logs, client, sync, view>>

InitSchedule ==
  /\ now \in ScheduleStarts
  /\ sys_offset \in {0, RomaniaOffset}
  /\ orders \in {{}} \cup {{o} : o \in ScheduleOrderPool}
  /\ state_logs = <<>>
  /\ call = NoCall
  /\ ret = NoRet
  /\ history = <<>>
  /\ client = NoClient
  /\ sync = NoSync
  /\ view = NoView

NextSchedule == ScheduledMidnightReport

SpecSchedule == InitSchedule /\ [][NextSchedule]_vars

\* The runs that passed the midnight guard.
PassedGuard(run) == run.kind /= "skipped"

\* The Romanian calendar day of an instant, as the wall-clock midnight that
\* starts it.
RomanianDayOf(ts) == (ts + RomaniaOffsetAt(ts)) - ((ts + RomaniaOffsetAt(ts)) % Day)

\* Of the two runs of a day exactly one passes the guard.
OneTriggerPassesPerDay ==
  \A i \in 1..Len(history) :
    (history[i].at % Day < 22 * 3600 /\ i < Len(history)) =>
      (PassedGuard(history[i]) /= PassedGuard(history[i + 1]))

\* No two runs that pass the guard report the same day, and each reports
\* the day before the Romanian day it runs on.
OneReportPerDay ==
  /\ \A i, j \in 1..Len(history) :
       (i < j /\ PassedGuard(history[i]) /\ PassedGuard(history[j])) =>
         history[i].report_date /= history[j].report_date
  /\ \A i \in 1..Len(history) :
       PassedGuard(history[i]) =>
         history[i].report_date = RomanianDayOf(history[i].at) - Day

\* The statistics of the report are those of the Romanian calendar day of
\* report_date: from its midnight to the last second before the next.
ReportCoversRomanianDay ==
  \A i \in 1..Len(history) :
    history[i].kind \in {"report", "no_activity"} =>
      /\ history[i].window.start_ts =
           history[i].report_date - LocalizeOffset(history[i].report_date)
      /\ history[i].window.end_ts =
           (history[i].report_date + Day - 1)
             - LocalizeOffset(history[i].report_date + Day - 1)

\* C29: on every calendar day, with Romania at UTC+2 and at UTC+3, exactly
\* one of the runs of 21:00 and 22:00 UTC passes the midnight guard, so the
\* daily report is generated at most once per day, and it covers the
\* previous Romanian calendar day.
C29_OneReportOfPreviousRomanianDay ==
  /\ OneTriggerPassesPerDay
  /\ OneReportPerDay
  /\ ReportCoversRomanianDay


(***************************************************************************)
(* CustomDateSelectView.  A click on an enabled button of the message      *)
(* starts its callback, which first awaits interaction.response.defer();   *)
(* the rest of the callback runs when that returns, and callbacks of       *)
(* clicks made meanwhile run in any order.  The message shows the buttons  *)
(* of the last _update_buttons.  Dates are naive wall-clock seconds with   *)
(* the time of day at which the view was opened.                           *)
(***************************************************************************)
MaxInFlight == 2
MaxWeeksBack == 1

\* Tuesday 2025-10-28, 08:00 UTC.
ViewNow == 20389 * Day + 8 * 3600

\* Monday of the week of dt: dt - timedelta(days=dt.weekday()).
get_week_start(dt) == dt - (((dt \div Day) + 3) % 7) * Day

\* The buttons of _update_buttons that are not disabled.
DayEnabled(v, day_date) ==
  /\ check_date_limits(day_date)
  /\ ~(v.selecting_end /\ v.start_date /= None /\ day_date < v.start_date)

OpenView ==
  [start_date |-> None, end_date |-> None, selecting_end |-> FALSE,
   current_week_start |-> get_week_start(SystemWall),
   pending |-> {}, invoked |-> <<>>, stopped |-> FALSE, replaced |-> FALSE]

\* A click on a button the message shows: the callback is started and
\* awaits defer().
Click(button) ==
  /\ ~view.stopped
  /\ ~view.replaced
  /\ Cardinality(view.pending) < MaxInFlight
  /\ button \notin view.pending
  /\ view' = [view EXCEPT !.pending = @ \cup {button}]
  /\ UNCHANGED <<now, sys_offset, orders, state_logs, call, ret, history, client, sync>>

ClickDay ==
  \E i \in 0..6 :
    /\ DayEnabled(view, view.current_week_start + i * Day)
    /\ Click([kind |-> "day", day_date |-> view.current_week_start + i * Day])

ClickPrevWeek ==
  /\ check_date_limits(view.current_week_start - 7 * Day)
  /\ view.current_week_start - 7 * Day >= get_week_start(SystemWall) - MaxWeeksBack * 7 * Day
  /\ Click([kind |-> "prev_week", day_date |-> None])

ClickNextWeek ==
  /\ check_date_limits(view.current_week_start + 7 * Day)
  /\ Click([kind |-> "next_week", day_date |-> None])

ClickReset ==
  /\ view.start_date /= None
  /\ Click([kind |-> "reset_dates", day_date |-> None])

ClickBack == Click([kind |-> "go_back", day_date |-> None])

\* The callback made by _make_day_callback, after defer().
DayCallback(button) ==
  /\ button \in view.pending
  /\ button.kind = "day"
  /\ view' = IF ~view.selecting_end
               THEN [view EXCEPT !.pending = @ \ {button},
                                 !.start_date = button.day_date,
                                 !.selecting_end = TRUE]
               ELSE [view EXCEPT !.pending = @ \ {button},
                                 !.end_date = button.day_date,
                                 !.invoked = Append(@, [start_date |-> view.start_date,
                                                        end_date |-> button.day_date]),
                                 !.stopped = TRUE]
  /\ UNCHANGED <<now, sys_offset, orders, state_logs, call, ret, history, client, sync>>

\* prev_week, next_week, reset_dates and go_back, after defer().
NavigationCallback(button) ==
  /\ button \in view.pending
  /\ button.kind /= "day"
  /\ view' = IF button.kind = "prev_week"
               THEN [view EXCEPT !.pending = @ \ {button},
                                 !.current_week_start = @ - 7 * Day]
             ELSE IF button.kind = "next_week"
               THEN [view EXCEPT !.pending = @ \ {button},
                                 !.current_week_start = @ + 7 * Day]
             ELSE IF button.kind = "reset_dates"
               THEN [view EXCEPT !.pending = @ \ {button},
                                 !.start_date = None,
                                 !.end_date = None,
                                 !.selecting_end = FALSE]
             ELSE [view EXCEPT !.pending = @ \ {button}, !.replaced = TRUE]
  /\ UNCHANGED <<now, sys_offset, orders, state_logs, call, ret, history, client, sync>>

InitView ==
  /\ now = ViewNow
  /\ sys_offset \in {0, RomaniaOffset}
  /\ orders = {}
  /\ state_logs = <<>>
  /\ call = NoCall
  /\ ret = NoRet
  /\ history = <<>>
  /\ client = NoClient
  /\ sync = NoSync
  /\ view = OpenView

NextView ==
  \/ ClickDay
  \/ ClickPrevWeek
  \/ ClickNextWeek
  \/ ClickReset
  \/ ClickBack
  \/ \E button \in view.pending : DayCallback(button)
  \/ \E button \in view.pending : NavigationCallback(button)

SpecView == InitView /\ [][NextView]_vars

SelectingEndIffStart == view.selecting_end <=> view.start_date /= None

InvokedAfterStartThenEnd ==
  \A i \in 1..Len(view.invoked) :
    /\ view.invoked[i].start_date /= None
    /\ view.invoked[i].end_date >= view.invoked[i].start_date

ResetReturnsToSelectStart ==
  (\E button \in view.pending : button.kind = "reset_dates" /\ button \notin view'.pending) =>
    /\ view'.start_date = None
    /\ view'.end_date = None
    /\ ~view'.selecting_end

\* C30: in CustomDateSelectView, after any sequence of day clicks, week
\* navigation and Reset, selecting_end is true exactly when start_date is
\* set, the stats callback is invoked only after a start date and then an
\* end date were chosen with end >= start, and Reset returns the view to
\* the select-start state from any state.
C30_CustomRangeSelection ==
  /\ [](view /= NoView => SelectingEndIffStart /\ InvokedAfterStartThenEnd)
  /\ [][ResetReturnsToSelectStart]_vars

====
